---- MODULE Spec2Model ----
(***************************************************************************)
(* docker-core-monitor: the dashboard's live state synchronizer.           *)
(*                                                                         *)
(* The repository holds the page in three generations:                     *)
(*   - the store version: routes/+page.svelte (src/unnamed/part_002) with  *)
(*     stores/containerStore.ts (the TypeScript half of                    *)
(*     src/frontend/Dockerfile.frontend), api/containerService.ts          *)
(*     (part_008), directives/interaction.ts (part_007) and the components *)
(*     (part_003, ContainerListItem.svelte).  Specifications: Spec (from   *)
(*     construction, network only), PageSpec (loaded page and its user),   *)
(*     SeriesSpec (the rolling traffic series).                            *)
(*   - the single-file page with the isUserInteracting flag                *)
(*     (src/unnamed/part_001).  Specification: MonoSpec.                   *)
(*   - the single-file page with manual reconnect timers                   *)
(*     (src/frontend/src/routes/+page.svelte, from line 399 on).           *)
(*                                                                         *)
(* Strings are sequences of one-character strings, so that split(/[-_]/)   *)
(* is computed and not looked up.                                          *)
(***************************************************************************)
EXTENDS Integers, Sequences, FiniteSets, TLC

VARIABLES
    containers,          \* Container[]            (store: containers)
    stats,               \* Record<string, Stats>  (store: stats)
    systemInfo,          \* { MemTotal, NCPU }
    customNames,         \* { containers, groups, container_groups }
    networkHistory,      \* { rx: number[], tx: number[] }
    isUserInteracting,   \* the guard flag
    editingContainerId,  \* string | null
    editingGroupName,    \* string | null
    editingName,         \* string
    viewMode,            \* "groups" | "list"
    focus,               \* the edit <input> that is document.activeElement, if any
    dragged,             \* the drag in progress: the card's id, and whether it was dropped
    timers,              \* pending setTimeout callbacks, by callback
    calls,               \* remote mutation calls in flight, in issue order
    pulls,               \* fetchContainers() calls in flight
    initPc,              \* position of onMount's initial fetch
    sock,                \* the socket.io client as the page sees it
    groupedContainers,   \* the grouped view the page renders (derived store)
    gestures,            \* how many gestures the user has made
    pushLog,             \* every aggregate [rx, tx] appended to the history so far
    ev                   \* the handler that ran last, with its input

vars == <<containers, stats, systemInfo, customNames, networkHistory,
          isUserInteracting, editingContainerId, editingGroupName, editingName,
          viewMode, focus, dragged, timers, calls, pulls, initPc, sock,
          groupedContainers, gestures, pushLog, ev>>

----------------------------------------------------------------------------
(* Bounds of the model. *)

MaxCalls == 1      \* remote mutation calls in flight at once
MaxPulls == 1      \* list fetches in flight at once
MaxTimers == 1     \* pending timers per callback
MaxPushes == 12    \* push events followed in SeriesSpec
MaxSyncPushes == 2 \* push events followed in Spec
MaxGestures == 4    \* gestures of the user followed in PageSpec and MonoSpec
MaxMonoCalls == 2   \* remote mutation calls in flight at once in MonoSpec
MaxServiceCalls == 2 \* service calls in flight at once in ServiceSpec
MaxAttempts == 6    \* connection attempts of one outage that the model follows
MaxTotalsPushes == 1 \* push events of TotalsSpec
MaxNameLen == 3     \* letters of a container name in NameSpec
MaxDigits == 5      \* base-1000 digits of a byte count in ChartSpec
MaxChartPoints == 1 \* points of each rolling series in ChartSpec

----------------------------------------------------------------------------
(* Values. *)

Null == <<"NULL">>          \* JS null / undefined (no string is one 4-letter symbol)
Empty == <<>>               \* ''  (also the empty object {} and the empty array [])

IdC1 == <<"c", "1">>
IdC2 == <<"c", "2">>
NameWeb1 == <<"w", "-", "1">>
NameDb1 == <<"d", "_", "1">>
TextA == <<"A">>
TextB == <<"B">>

Ids == {IdC1, IdC2}
Texts == {TextA}     \* what the user types into an edit input

Entity(i, n, s) == [id |-> i, name |-> n, docker_name |-> n, status |-> s]
E1 == Entity(IdC1, NameWeb1, "running")
E1x == Entity(IdC1, NameWeb1, "exited")
E2 == Entity(IdC2, NameDb1, "exited")

\* GET /containers: the lists the backend answers with.
PullPayloads == {<<>>, <<E1>>, <<E1x, E2>>, <<E2, E1>>}

Stat(rx, tx) == [network_rx |-> rx, network_tx |-> tx]

EmptyNames == [containers |-> <<>>, groups |-> <<>>, container_groups |-> <<>>]

----------------------------------------------------------------------------
(* JS objects used as maps: functions over the keys present. *)

Has(m, k) == k \in DOMAIN m

Get(m, k) == IF Has(m, k) THEN m[k] ELSE Null

Put(m, k, v) == [x \in (DOMAIN m) \cup {k} |-> IF x = k THEN v ELSE m[x]]

Del(m, k) == [x \in (DOMAIN m) \ {k} |-> m[x]]

One(k, v) == [x \in {k} |-> v]

\* JS truthiness of a string-or-undefined value.
Truthy(v) == v # Null /\ v # Empty

\* a || b
OrElse(a, b) == IF Truthy(a) THEN a ELSE b

\* Array.prototype.find on the container list; NoContainer is its undefined
FindIdx(list, i) == {n \in 1..Len(list) : list[n].id = i}

NoContainer == [id |-> Null, name |-> Null, docker_name |-> Null, status |-> "none"]

Find(list, i) ==
    IF FindIdx(list, i) = {} THEN NoContainer
    ELSE list[CHOOSE n \in FindIdx(list, i) : \A m \in FindIdx(list, i) : n <= m]

IdsOf(list) == {list[n].id : n \in 1..Len(list)}

----------------------------------------------------------------------------
(* lib/utils/containerHelpers.ts *)

IsSep(ch) == ch = "-" \/ ch = "_"

\* name.split(/[-_]/)[0]
FirstToken(name) ==
    LET seps == {n \in 1..Len(name) : IsSep(name[n])}
    IN  IF seps = {} THEN name
        ELSE SubSeq(name, 1, (CHOOSE n \in seps : \A m \in seps : n <= m) - 1)

Unknown == <<"U", "n", "k", "n", "o", "w", "n">>

\* The first token whatever it is, without the fallback to the name.
getDefaultGroup_token(container) ==
    IF container = NoContainer THEN Unknown
    ELSE FirstToken(container.name)

getDefaultGroup(container) ==
    IF container = NoContainer THEN Unknown
    ELSE OrElse(FirstToken(container.name), container.name)

getDefaultGroupById(containerId, list) ==
    IF Find(list, containerId) = NoContainer THEN Unknown
    ELSE getDefaultGroup(Find(list, containerId))

getContainerGroup_default(containerId, list, customContainerGroups) ==
    getDefaultGroupById(containerId, list)

getContainerGroup(containerId, list, customContainerGroups) ==
    IF Truthy(Get(customContainerGroups, containerId))
    THEN customContainerGroups[containerId]
    ELSE getDefaultGroupById(containerId, list)

\* The keys of updateGroupedContainers' result, in insertion order: a group is
\* created when the reduce meets its first container.
RECURSIVE GroupOrder(_, _, _)
GroupOrder(list, all, cg) ==
    IF list = <<>> THEN <<>>
    ELSE LET front == GroupOrder(SubSeq(list, 1, Len(list) - 1), all, cg)
             g == getContainerGroup(list[Len(list)].id, all, cg)
         IN  IF \E n \in 1..Len(front) : front[n] = g THEN front ELSE Append(front, g)

RECURSIVE FilterGroup(_, _, _, _)
FilterGroup(list, all, cg, g) ==
    IF list = <<>> THEN <<>>
    ELSE IF getContainerGroup(Head(list).id, all, cg) = g
         THEN <<Head(list)>> \o FilterGroup(Tail(list), all, cg, g)
         ELSE FilterGroup(Tail(list), all, cg, g)

\* Record<string, Container[]> as its entries, in key order.
updateGroupedContainers(list, cg) ==
    LET order == GroupOrder(list, list, cg)
    IN  [n \in 1..Len(order) |->
            [name |-> order[n], members |-> FilterGroup(list, list, cg, order[n])]]

GroupKeys(grouped) == {grouped[n].name : n \in 1..Len(grouped)}

MembersOf(grouped, g) ==
    IF g \in GroupKeys(grouped)
    THEN (CHOOSE e \in {grouped[n] : n \in 1..Len(grouped)} : e.name = g).members
    ELSE <<>>

----------------------------------------------------------------------------
(* Payloads of the backend. *)

SysInfo0 == [MemTotal |-> 0, NCPU |-> 0]
SysInfo1 == [MemTotal |-> 1, NCPU |-> 1]

NameGroupW == <<"w">>
NameGroupD == <<"d">>

\* GET /custom-names and update_stats.custom_names: what the backend may hold.
\* Its keys are the ones clients sent: ids from drops and list items, docker
\* names from cards.
RemoteOverlays ==
    { EmptyNames,
      [EmptyNames EXCEPT !.containers = One(IdC1, TextA)],
      [EmptyNames EXCEPT !.groups = One(NameGroupW, TextB)],
      [EmptyNames EXCEPT !.container_groups = [k \in {IdC1, NameWeb1} |-> NameGroupD]] }

\* update_stats.containers in Spec and MonoSpec: every snapshot has the same
\* aggregate, so the rolling series there is decided by its length.
SyncStats ==
    { One(IdC1, Stat(1, 0)),
      [i \in Ids |-> IF i = IdC1 THEN Stat(1, 0) ELSE Stat(0, 0)] }

\* update_stats.containers in SeriesSpec: aggregates [0, 0] and [2, 1].
SeriesStats ==
    { <<>>,
      [i \in Ids |-> IF i = IdC1 THEN Stat(1, 0) ELSE Stat(1, 1)] }

PushOf(s, o) == [containers |-> s, system_info |-> SysInfo1, custom_names |-> o]

SyncPushes == {PushOf(s, o) : s \in SyncStats, o \in RemoteOverlays}

\* What the backend of MonoSpec may hold: the single-file page keys by id.
MonoOverlays ==
    { EmptyNames,
      [EmptyNames EXCEPT !.containers = One(IdC1, TextA)] }

MonoPushes == {PushOf(s, o) : s \in SyncStats, o \in MonoOverlays}
SeriesPushes == {PushOf(s, EmptyNames) : s \in SeriesStats}

NoData == PushOf(<<>>, EmptyNames)

\* ev: which handler ran last, and on what input
EvOther == [op |-> "other", ok |-> TRUE, list |-> <<>>, data |-> NoData]
EvPull(ok, list) == [op |-> "pull", ok |-> ok, list |-> list, data |-> NoData]
EvPush(data) == [op |-> "push", ok |-> TRUE, list |-> <<>>, data |-> data]

NoDrag == [id |-> Null, dropped |-> FALSE]

Call(kind, cid, key, name, original) ==
    [kind |-> kind, cid |-> cid, key |-> key, name |-> name, original |-> original]

Without(seq, i) == SubSeq(seq, 1, i - 1) \o SubSeq(seq, i + 1, Len(seq))

----------------------------------------------------------------------------
(* stores/containerStore.ts *)

HistoryKeep == 9

\* A series that is never cut.
LastN_all(seq, n) == seq

LastN(seq, n) == IF Len(seq) <= n THEN seq ELSE SubSeq(seq, Len(seq) - n + 1, Len(seq))

RECURSIVE SumRx(_)
SumRx(m) ==
    IF DOMAIN m = {} THEN 0
    ELSE LET k == CHOOSE x \in DOMAIN m : TRUE
         IN  (IF Has(m[k], "network_rx") THEN m[k].network_rx ELSE 0) + SumRx(Del(m, k))

RECURSIVE SumTx(_)
SumTx(m) ==
    IF DOMAIN m = {} THEN 0
    ELSE LET k == CHOOSE x \in DOMAIN m : TRUE
         IN  (IF Has(m[k], "network_tx") THEN m[k].network_tx ELSE 0) + SumTx(Del(m, k))

\* A history that takes the new aggregate at its front.
updateNetworkHistory_front(history, statsData) ==
    [rx |-> <<SumRx(statsData)>> \o LastN(history.rx, HistoryKeep),
     tx |-> <<SumTx(statsData)>> \o LastN(history.tx, HistoryKeep)]

\* updateNetworkHistory: the history after the call
updateNetworkHistory(history, statsData) ==
    [rx |-> Append(LastN(history.rx, HistoryKeep), SumRx(statsData)),
     tx |-> Append(LastN(history.tx, HistoryKeep), SumTx(statsData))]

\* startEditing / startDragging, stopEditing / stopDragging: the flag they set
startEditing == TRUE
stopEditing == FALSE
startDragging == TRUE
stopDragging == FALSE

----------------------------------------------------------------------------
(* What the page shows, which decides what the user can click. *)

ContainerFormShown(list, ecid) == ecid \in IdsOf(list)

GroupFormShown(mode, grouped, egn) == mode = "groups" /\ egn \in GroupKeys(grouped)

\* An <input> that leaves the DOM is no longer document.activeElement.
FocusKept(f, list, grouped, mode, ecid, egn) ==
    IF f = "container" /\ ContainerFormShown(list, ecid) THEN f
    ELSE IF f = "group" /\ GroupFormShown(mode, grouped, egn) THEN f
    ELSE "none"

\* ContainerCard keys the overlay by docker_name, ContainerListItem by id.
KeyOf(mode, c) == IF mode = "groups" THEN c.docker_name ELSE c.id

----------------------------------------------------------------------------
(* The store version: routes/+page.svelte (part_002) and its components.   *)

netVars == <<pulls, initPc, sock>>
editVars == <<editingContainerId, editingGroupName, editingName>>
metricVars == <<stats, systemInfo, networkHistory>>

Init ==
    /\ containers = <<>>
    /\ stats = <<>>
    /\ systemInfo = SysInfo0
    /\ customNames = EmptyNames
    /\ networkHistory = [rx |-> <<>>, tx |-> <<>>]
    /\ isUserInteracting = FALSE
    /\ editingContainerId = Null
    /\ editingGroupName = Null
    /\ editingName = Empty
    /\ viewMode = "groups"
    /\ focus = "none"
    /\ dragged = NoDrag
    /\ timers = [stop |-> 0, fetch |-> 0]
    /\ calls = <<>>
    /\ pulls = 0
    /\ initPc = "containers"
    /\ sock = [state |-> "connecting", emits |-> 0, refreshes |-> 0, again |-> FALSE,
               attempts |-> 0]
    /\ groupedContainers = <<>>
    /\ gestures = 0
    /\ pushLog = <<>>
    /\ ev = EvOther

\* containers.set(list): the derived stores follow
SetContainers(list) ==
    /\ containers' = list
    /\ groupedContainers' = updateGroupedContainers(list, customNames.container_groups)
    /\ focus' = FocusKept(focus, list, groupedContainers', viewMode,
                          editingContainerId, editingGroupName)

\* customNames.set(names): the derived stores follow
SetCustomNames(names) ==
    /\ customNames' = names
    /\ groupedContainers' = updateGroupedContainers(containers, names.container_groups)
    /\ focus' = FocusKept(focus, containers, groupedContainers', viewMode,
                          editingContainerId, editingGroupName)

\* A fetch that keeps only the first entity of the payload.
fetchContainers_first(ok, payload) ==
    IF ok /\ payload # <<>> THEN <<payload[1]>> ELSE <<>>

\* containerService.fetchContainers: the payload, or [] when the request fails
fetchContainers(ok, payload) == IF ok THEN payload ELSE <<>>

\* containerService.fetchCustomNames: the payload, or the empty overlay
fetchCustomNames(ok, payload) == IF ok THEN payload ELSE EmptyNames

\* onMount: fetchInitialData, first await
InitialContainers ==
    /\ initPc = "containers"
    /\ \E ok \in BOOLEAN, payload \in PullPayloads :
          /\ SetContainers(fetchContainers(ok, payload))
          /\ ev' = EvPull(ok, payload)
    /\ initPc' = "names"
    /\ UNCHANGED <<metricVars, customNames, isUserInteracting, editVars, viewMode,
                   dragged, timers, calls, pulls, sock, pushLog>>
    /\ UNCHANGED gestures

\* onMount: fetchInitialData, second await
InitialNames ==
    /\ initPc = "names"
    /\ \E ok \in BOOLEAN, payload \in RemoteOverlays :
          SetCustomNames(fetchCustomNames(ok, payload))
    /\ initPc' = "done"
    /\ ev' = EvOther
    /\ UNCHANGED <<metricVars, containers, isUserInteracting, editVars, viewMode,
                   dragged, timers, calls, pulls, sock, pushLog>>
    /\ UNCHANGED gestures

\* The page is mounted until its cleanup has run socket.disconnect().
Mounted == sock.state # "closed"

\* setInterval(async () => { const data = await fetchContainers(); ...
PullTick ==
    /\ Mounted
    /\ pulls < MaxPulls
    /\ pulls' = pulls + 1
    /\ ev' = EvOther
    /\ UNCHANGED <<metricVars, containers, customNames, groupedContainers,
                   isUserInteracting, editVars, viewMode, focus, dragged, timers,
                   calls, initPc, sock, pushLog>>
    /\ UNCHANGED gestures

\* ... containers.set(data) }: also the continuation of the connect handlers' fetch
PullDone ==
    /\ pulls > 0
    /\ \E ok \in BOOLEAN, payload \in PullPayloads :
          /\ SetContainers(fetchContainers(ok, payload))
          /\ ev' = EvPull(ok, payload)
    /\ pulls' = pulls - 1
    /\ UNCHANGED <<metricVars, customNames, isUserInteracting, editVars, viewMode,
                   dragged, timers, calls, initPc, sock, pushLog>>
    /\ UNCHANGED gestures

\* A handler that merges the event into the metrics it holds.
UpdateStats_merge(data) ==
    /\ sock.state = "connected"
    /\ stats' = [k \in (DOMAIN stats) \cup (DOMAIN data.containers) |->
                    IF k \in DOMAIN data.containers THEN data.containers[k]
                    ELSE stats[k]]
    /\ systemInfo' = data.system_info
    /\ networkHistory' = updateNetworkHistory(networkHistory, data.containers)
    /\ IF focus = "none"
       THEN SetCustomNames(data.custom_names)
       ELSE UNCHANGED <<customNames, groupedContainers, focus>>
    /\ ev' = EvPush(data)
    /\ UNCHANGED <<containers, isUserInteracting, editVars, viewMode, dragged,
                   timers, calls, netVars>>
    /\ UNCHANGED gestures

\* socket.on("update_stats")
UpdateStats(data) ==
    /\ sock.state = "connected"
    /\ stats' = data.containers
    /\ systemInfo' = data.system_info
    /\ networkHistory' = updateNetworkHistory(networkHistory, data.containers)
    /\ IF focus = "none"
       THEN SetCustomNames(data.custom_names)
       ELSE UNCHANGED <<customNames, groupedContainers, focus>>
    /\ ev' = EvPush(data)
    /\ UNCHANGED <<containers, isUserInteracting, editVars, viewMode, dragged,
                   timers, calls, netVars>>
    /\ UNCHANGED gestures

Push ==
    /\ Len(networkHistory.rx) < MaxSyncPushes
    /\ \E data \in SyncPushes : UpdateStats(data)
    /\ UNCHANGED pushLog

\* The body shared by socket.on('connect') and socket.on('reconnect'):
\* socket.emit('request_stats'); fetchContainers().then(data => containers.set(data))
ForcedRefresh(next) ==
    /\ pulls < MaxPulls
    /\ pulls' = pulls + 1
    /\ sock' = [sock EXCEPT !.state = next, !.emits = @ + 1, !.refreshes = @ + 1,
                            !.attempts = 0]
    /\ ev' = EvOther
    /\ UNCHANGED <<metricVars, containers, customNames, groupedContainers,
                   isUserInteracting, editVars, viewMode, focus, dragged, timers,
                   calls, initPc, pushLog>>
    /\ UNCHANGED gestures

\* socket.on('connect'): the first connection, socket.connect() after a server
\* disconnect, and every reconnection
OnConnect ==
    /\ sock.state \in {"connecting", "reconnecting", "opened"}
    /\ ForcedRefresh("connected")

\* socket.on('reconnect'): socket.io-client up to 2.x forwards the manager's
\* reconnect event to the socket before the socket's connect; from 3.0 on the
\* socket never emits it.  The client's version is not pinned in the sources.
OnReconnect ==
    /\ sock.state = "reconnecting"
    /\ ForcedRefresh("opened")

\* socket.on('disconnect'): socket.connect() by hand when the server closed the
\* connection, the library's own reconnection otherwise
OnDisconnect ==
    /\ sock.state = "connected"
    /\ \E reason \in {"io server disconnect", "transport close"} :
          sock' = [state |-> IF reason = "io server disconnect"
                             THEN "connecting" ELSE "reconnecting",
                   emits |-> 0, refreshes |-> 0, again |-> TRUE,
                   attempts |-> IF reason = "io server disconnect" THEN 0 ELSE 1]
    /\ ev' = EvOther
    /\ UNCHANGED <<metricVars, containers, customNames, groupedContainers,
                   isUserInteracting, editVars, viewMode, focus, dragged, timers,
                   calls, pulls, initPc, pushLog>>
    /\ UNCHANGED gestures

\* io(SOCKET_URL, {reconnection: true, reconnectionAttempts: Infinity, ...})
Infinity == "Infinity"
reconnectionAttempts == Infinity

\* sock.attempts is the manager's backoff.attempts: the reconnection attempts
\* started in this outage.  The manager gives up when backoff.attempts >=
\* reconnectionAttempts.
AttemptsExhausted(n) ==
    reconnectionAttempts # Infinity /\ n >= reconnectionAttempts

\* A connection attempt fails: socket.on('connect_error') logs, and the manager
\* schedules the next attempt unless its attempts are exhausted.
ConnectError ==
    /\ sock.state \in {"connecting", "reconnecting"}
    /\ sock.attempts < MaxAttempts
    /\ sock' = [sock EXCEPT !.state = IF AttemptsExhausted(sock.attempts)
                                      THEN "failed" ELSE "reconnecting",
                            !.attempts = IF AttemptsExhausted(sock.attempts)
                                         THEN @ ELSE @ + 1]
    /\ ev' = EvOther
    /\ UNCHANGED <<metricVars, containers, customNames, groupedContainers,
                   isUserInteracting, editVars, viewMode, focus, dragged, timers,
                   calls, pulls, initPc, pushLog>>
    /\ UNCHANGED gestures

\* One more gesture of the user.
Gesture ==
    /\ Mounted
    /\ gestures < MaxGestures
    /\ gestures' = gestures + 1

\* A click or a keystroke: a drag holds the pointer until its dragend.
Clicking ==
    /\ dragged = NoDrag
    /\ Gesture

\* toggleViewMode: the other view's components replace this view's
ToggleViewMode ==
    /\ viewMode' = IF viewMode = "groups" THEN "list" ELSE "groups"
    /\ focus' = "none"
    /\ ev' = EvOther
    /\ UNCHANGED <<metricVars, containers, customNames, groupedContainers,
                   isUserInteracting, editVars, dragged, timers, calls, netVars,
                   pushLog>>
    /\ Clicking

\* ContainerCard / ContainerListItem: startEditingContainer(container.id, container.name)
StartEditingContainer(c) ==
    /\ c.id # editingContainerId
    /\ isUserInteracting' = startEditing
    /\ editingContainerId' = c.id
    /\ editingName' = c.name
    /\ focus' = "none"
    /\ ev' = EvOther
    /\ UNCHANGED <<metricVars, containers, customNames, groupedContainers,
                   editingGroupName, viewMode, dragged, timers, calls, netVars, pushLog>>
    /\ Clicking

\* ContainerGroup: startEditingGroup(groupName, getGroupDisplayName(groupName))
StartEditingGroup(g) ==
    /\ viewMode = "groups"
    /\ g # editingGroupName
    /\ isUserInteracting' = startEditing
    /\ editingGroupName' = g
    /\ editingName' = OrElse(Get(customNames.groups, g), g)
    /\ focus' = "none"
    /\ ev' = EvOther
    /\ UNCHANGED <<metricVars, containers, customNames, groupedContainers,
                   editingContainerId, viewMode, dragged, timers, calls, netVars,
                   pushLog>>
    /\ Clicking

\* ContainerCard / ContainerListItem: cancelEditing, as a statement sequence
CancelContainerEdit ==
    /\ editingContainerId' = Null
    /\ editingName' = Empty
    /\ isUserInteracting' = stopEditing
    /\ UNCHANGED editingGroupName

\* ContainerGroup: cancelEditing, as a statement sequence
CancelGroupEdit ==
    /\ editingGroupName' = Null
    /\ editingName' = Empty
    /\ isUserInteracting' = stopEditing
    /\ UNCHANGED editingContainerId

\* the Cancel button of a container's form
CancelEditingContainer ==
    /\ ContainerFormShown(containers, editingContainerId)
    /\ CancelContainerEdit
    /\ focus' = "none"
    /\ ev' = EvOther
    /\ UNCHANGED <<metricVars, containers, customNames, groupedContainers, viewMode,
                   dragged, timers, calls, netVars, pushLog>>
    /\ Clicking

\* the Cancel button of a group's form
CancelEditingGroup ==
    /\ GroupFormShown(viewMode, groupedContainers, editingGroupName)
    /\ CancelGroupEdit
    /\ focus' = "none"
    /\ ev' = EvOther
    /\ UNCHANGED <<metricVars, containers, customNames, groupedContainers, viewMode,
                   dragged, timers, calls, netVars, pushLog>>
    /\ Clicking

\* the user clicks into the <input> of an open form
FocusInput ==
    /\ \E f \in {"container", "group"} :
          /\ f # focus
          /\ f = "container" => ContainerFormShown(containers, editingContainerId)
          /\ f = "group" => GroupFormShown(viewMode, groupedContainers, editingGroupName)
          /\ focus' = f
    /\ ev' = EvOther
    /\ UNCHANGED <<metricVars, containers, customNames, groupedContainers,
                   isUserInteracting, editVars, viewMode, dragged, timers, calls,
                   netVars, pushLog>>
    /\ Clicking

\* <input bind:value={$editingName}>
TypeName ==
    /\ focus # "none"
    /\ \E text \in Texts : text # editingName /\ editingName' = text
    /\ ev' = EvOther
    /\ UNCHANGED <<metricVars, containers, customNames, groupedContainers,
                   isUserInteracting, editingContainerId, editingGroupName, viewMode,
                   focus, dragged, timers, calls, netVars, pushLog>>
    /\ Clicking

\* a remote call of containerService leaves; its continuation is ResolveCall
IssueCall(call) ==
    /\ Len(calls) < MaxCalls
    /\ calls' = Append(calls, call)
    /\ focus' = "none"
    /\ ev' = EvOther
    /\ UNCHANGED <<metricVars, containers, customNames, groupedContainers,
                   isUserInteracting, editVars, viewMode, dragged, timers, netVars,
                   pushLog>>
    /\ Clicking

\* handleUpdateContainerName, up to its await
SaveContainerName(c) ==
    /\ editingContainerId = c.id
    /\ IssueCall(Call("updateContainerName", Null, KeyOf(viewMode, c), Empty, Null))

\* handleUpdateGroupName, up to its await
SaveGroupName(g) ==
    /\ viewMode = "groups"
    /\ editingGroupName = g
    /\ IssueCall(Call("updateGroupName", Null, g, Empty, Null))

\* handleResetContainerName, up to its await
ResetContainerName(c) ==
    /\ editingContainerId # c.id
    /\ Truthy(Get(customNames.containers, KeyOf(viewMode, c)))
    /\ IssueCall(Call("resetContainerName", Null, KeyOf(viewMode, c), Empty, Null))

\* handleResetGroupName, up to its await
ResetGroupName(g) ==
    /\ viewMode = "groups"
    /\ editingGroupName # g
    /\ Truthy(Get(customNames.groups, g))
    /\ IssueCall(Call("resetGroupName", Null, g, Empty, Null))

\* handleResetContainerGroup, up to its await
ResetContainerGroup(c) ==
    /\ viewMode = "groups"
    /\ editingContainerId # c.id
    /\ Truthy(Get(customNames.container_groups, c.docker_name))
    /\ IssueCall(Call("resetContainerGroup", Null, c.docker_name, Empty, Null))

\* The overlay after the `if (success) { ... }` of a handler: the component
\* writes into the object the store holds, without a store.set
AfterSuccess(call, names, text) ==
    CASE call.kind = "updateContainerName" ->
            [names EXCEPT !.containers = Put(@, call.key, text)]
      [] call.kind = "updateGroupName" ->
            [names EXCEPT !.groups = Put(@, call.key, text)]
      [] call.kind = "resetContainerName" ->
            [names EXCEPT !.containers = Del(@, call.key)]
      [] call.kind = "resetGroupName" ->
            [names EXCEPT !.groups = Del(@, call.key)]
      [] call.kind = "resetContainerGroup" ->
            [names EXCEPT !.container_groups = Del(@, call.key)]

\* the rest of a handler after `const success = await ...`
ResolveCall(i, ok) ==
    /\ i \in 1..Len(calls)
    /\ calls' = Without(calls, i)
    /\ customNames' = IF ok THEN AfterSuccess(calls[i], customNames, editingName)
                      ELSE customNames
    /\ CASE calls[i].kind = "updateContainerName" -> CancelContainerEdit
         [] calls[i].kind = "updateGroupName" -> CancelGroupEdit
         [] OTHER -> UNCHANGED <<isUserInteracting, editVars>>
    /\ focus' = FocusKept(focus, containers, groupedContainers, viewMode,
                          editingContainerId', editingGroupName')
    /\ ev' = EvOther
    /\ UNCHANGED <<metricVars, containers, groupedContainers, viewMode, dragged,
                   timers, netVars, pushLog>>
    /\ UNCHANGED gestures

\* directives/interaction.ts draggable: handleDragStart
DragStart(c) ==
    /\ viewMode = "groups"
    /\ dragged = NoDrag
    /\ isUserInteracting' = startDragging
    /\ dragged' = [id |-> c.id, dropped |-> FALSE]
    /\ focus' = "none"
    /\ ev' = EvOther
    /\ UNCHANGED <<metricVars, containers, customNames, groupedContainers, editVars,
                   viewMode, timers, calls, netVars, pushLog>>
    /\ Gesture

\* directives/interaction.ts draggable: handleDragEnd
DragEnd ==
    /\ dragged # NoDrag
    /\ isUserInteracting' = stopDragging
    /\ dragged' = NoDrag
    /\ ev' = EvOther
    /\ UNCHANGED <<metricVars, containers, customNames, groupedContainers, editVars,
                   viewMode, focus, timers, calls, netVars, pushLog>>
    /\ Gesture

\* ContainerGroup.getContainerGroup: the group's own containers prop is searched
GroupOfDropped(i, g) ==
    IF Truthy(Get(customNames.container_groups, i))
    THEN customNames.container_groups[i]
    ELSE getDefaultGroup(Find(MembersOf(groupedContainers, g), i))

\* ContainerGroup.handleContainerDrop: the overlay after it; the remote
\* updateContainerGroup call it starts has no continuation
handleContainerDrop(i, g) ==
    IF GroupOfDropped(i, g) = g THEN customNames
    ELSE [customNames EXCEPT !.container_groups = Put(@, i, g)]

\* directives/interaction.ts dropZone: handleDrop on a group's header
Drop(g) ==
    /\ viewMode = "groups"
    /\ dragged # NoDrag
    /\ ~dragged.dropped
    /\ timers.stop < MaxTimers
    /\ isUserInteracting' = startEditing
    /\ customNames' = handleContainerDrop(dragged.id, g)
    /\ timers' = [timers EXCEPT !.stop = @ + 1]
    /\ dragged' = [dragged EXCEPT !.dropped = TRUE]
    /\ ev' = EvOther
    /\ UNCHANGED <<metricVars, containers, groupedContainers, editVars, viewMode,
                   focus, calls, netVars, pushLog>>
    /\ Gesture

\* setTimeout(() => window.stopEditing(), 500) of handleDrop
DropTimer ==
    /\ timers.stop > 0
    /\ isUserInteracting' = stopEditing
    /\ timers' = [timers EXCEPT !.stop = @ - 1]
    /\ ev' = EvOther
    /\ UNCHANGED <<metricVars, containers, customNames, groupedContainers, editVars,
                   viewMode, focus, dragged, calls, netVars, pushLog>>
    /\ UNCHANGED gestures

\* onMount's cleanup and onDestroy: socket.disconnect() and clearInterval.
\* The stores are module state and outlive the page; calls, fetches and
\* timeouts that are pending stay pending.
Unmount ==
    /\ sock' = [sock EXCEPT !.state = "closed"]
    /\ focus' = "none"
    /\ ev' = EvOther
    /\ UNCHANGED <<metricVars, containers, customNames, groupedContainers,
                   isUserInteracting, editVars, viewMode, dragged, timers, calls,
                   pulls, initPc, pushLog>>
    /\ Clicking

Shown == {containers[n] : n \in 1..Len(containers)}

Click ==
    \/ ToggleViewMode
    \/ \E c \in Shown : StartEditingContainer(c)
    \/ \E g \in GroupKeys(groupedContainers) : StartEditingGroup(g)
    \/ CancelEditingContainer
    \/ CancelEditingGroup
    \/ FocusInput
    \/ TypeName
    \/ \E c \in Shown : SaveContainerName(c)
    \/ \E g \in GroupKeys(groupedContainers) : SaveGroupName(g)
    \/ \E c \in Shown : ResetContainerName(c)
    \/ \E g \in GroupKeys(groupedContainers) : ResetGroupName(g)
    \/ \E c \in Shown : ResetContainerGroup(c)

UserAction ==
    \/ Click
    \/ Unmount
    \/ \E c \in Shown : DragStart(c)
    \/ DragEnd
    \/ \E g \in GroupKeys(groupedContainers) : Drop(g)

\* Spec: the page from its construction, with the network only: the initial
\* fetch, the pull timer, the push channel and its connection.
Network ==
    \/ InitialContainers
    \/ InitialNames
    \/ PullTick
    \/ PullDone
    \/ Push
    \/ OnConnect
    \/ OnReconnect
    \/ OnDisconnect
    \/ ConnectError

Next == Network

Spec == Init /\ [][Next]_vars

\* PageSpec: the page once it has loaded and the channel has delivered ten
\* snapshots, with its user.  The history is full, so a push of the same
\* aggregate leaves it as it is.
FullHistory(s) ==
    [rx |-> [n \in 1..(HistoryKeep + 1) |-> SumRx(s)],
     tx |-> [n \in 1..(HistoryKeep + 1) |-> SumTx(s)]]

PageInit ==
    /\ \E payload \in PullPayloads, names \in RemoteOverlays, s \in SyncStats :
          /\ containers = payload
          /\ customNames = names
          /\ stats = s
          /\ networkHistory = FullHistory(s)
          /\ groupedContainers = updateGroupedContainers(payload, names.container_groups)
    /\ systemInfo = SysInfo1
    /\ isUserInteracting = FALSE
    /\ editingContainerId = Null
    /\ editingGroupName = Null
    /\ editingName = Empty
    /\ viewMode = "groups"
    /\ focus = "none"
    /\ dragged = NoDrag
    /\ timers = [stop |-> 0, fetch |-> 0]
    /\ calls = <<>>
    /\ pulls = 0
    /\ initPc = "done"
    /\ sock = [state |-> "connected", emits |-> 1, refreshes |-> 1, again |-> FALSE,
               attempts |-> 0]
    /\ gestures = 0
    /\ pushLog = <<>>
    /\ ev = EvOther

PagePush ==
    /\ \E data \in SyncPushes : UpdateStats(data)
    /\ UNCHANGED pushLog

PageSystem ==
    \/ DropTimer
    \/ \E i \in 1..Len(calls), ok \in BOOLEAN : ResolveCall(i, ok)
    \/ PullTick
    \/ PullDone
    \/ PagePush

PageNext == UserAction \/ PageSystem

PageSpec == PageInit /\ [][PageNext]_vars

\* SeriesSpec: the channel connects and delivers snapshots of changing aggregates.
SeriesPush ==
    /\ Len(pushLog) < MaxPushes
    /\ \E data \in SeriesPushes :
          /\ UpdateStats(data)
          /\ pushLog' = Append(pushLog, [rx |-> SumRx(data.containers),
                                         tx |-> SumTx(data.containers)])

SeriesNext ==
    \/ OnConnect
    \/ PullDone
    \/ SeriesPush

SeriesSpec == Init /\ [][SeriesNext]_vars

----------------------------------------------------------------------------
(* The single-file page (guard flag, optimistic mutations with rollback) *)

\* A mutation in flight: what its closure captured, and what is known of the
\* calls it raced with (prev, olderFailed and newerOk are history, not program
\* state).
MonoCall(kind, key, name, original, prev, container) ==
    [kind |-> kind, key |-> key, name |-> name, original |-> original,
     container |-> container, prev |-> prev, olderFailed |-> FALSE,
     newerOk |-> Null]

EvSettle(call, outcome, clean, expect) ==
    [op |-> "settle", ok |-> outcome = "ok", list |-> <<>>, data |-> NoData,
     call |-> call, outcome |-> outcome, clean |-> clean, expect |-> expect]

\* containers.map(c => c.id === containerId ? { ...c, name } : c)
RenameIn(list, containerId, name) ==
    [n \in 1..Len(list) |->
        IF list[n].id = containerId THEN [list[n] EXCEPT !.name = name]
        ELSE list[n]]

\* updateContainerGroup's surgery on groupedContainers: the container leaves
\* the group `from` (deleted when that empties it) and is pushed onto `to`.
MoveMember(grouped, from, to, c) ==
    LET filtered == [n \in 1..Len(grouped) |->
                        IF grouped[n].name = from
                        THEN [grouped[n] EXCEPT
                                !.members = SelectSeq(@, LAMBDA m : m.id # c.id)]
                        ELSE grouped[n]]
        kept == SelectSeq(filtered, LAMBDA e : e.name # from \/ e.members # <<>>)
    IN  IF \E n \in 1..Len(kept) : kept[n].name = to
        THEN [n \in 1..Len(kept) |->
                IF kept[n].name = to
                THEN [kept[n] EXCEPT !.members = Append(@, c)]
                ELSE kept[n]]
        ELSE Append(kept, [name |-> to, members |-> <<c>>])

\* updateNetworkHistory of the single-file page
MonoNetworkHistory(history, statsData) ==
    [rx |-> LastN(Append(LastN(history.rx, HistoryKeep), SumRx(statsData)),
                  HistoryKeep + 1),
     tx |-> LastN(Append(LastN(history.tx, HistoryKeep), SumTx(statsData)),
                  HistoryKeep + 1)]

\* startEditingContainer(container.id, container.name)
MonoStartEditingContainer(c) ==
    /\ editingContainerId # c.id
    /\ isUserInteracting' = startEditing
    /\ editingContainerId' = c.id
    /\ editingName' = c.name
    /\ ev' = EvOther
    /\ UNCHANGED <<metricVars, containers, customNames, groupedContainers,
                   editingGroupName, viewMode, focus, dragged, timers, calls,
                   netVars, pushLog>>
    /\ Clicking

\* startEditingGroup(groupName, getGroupDisplayName(groupName))
MonoStartEditingGroup(g) ==
    /\ editingGroupName # g
    /\ isUserInteracting' = startEditing
    /\ editingGroupName' = g
    /\ editingName' = OrElse(Get(customNames.groups, g), g)
    /\ ev' = EvOther
    /\ UNCHANGED <<metricVars, containers, customNames, groupedContainers,
                   editingContainerId, viewMode, focus, dragged, timers, calls,
                   netVars, pushLog>>
    /\ Clicking

\* cancelEditing
MonoCancelEditing ==
    /\ editingContainerId # Null \/ editingGroupName # Null
    /\ editingContainerId' = Null
    /\ editingGroupName' = Null
    /\ editingName' = Empty
    /\ isUserInteracting' = stopEditing
    /\ ev' = EvOther
    /\ UNCHANGED <<metricVars, containers, customNames, groupedContainers,
                   viewMode, focus, dragged, timers, calls, netVars, pushLog>>
    /\ Clicking

\* bind:value={editingName}
MonoTypeName ==
    /\ editingContainerId # Null \/ editingGroupName # Null
    /\ \E text \in Texts : text # editingName /\ editingName' = text
    /\ ev' = EvOther
    /\ UNCHANGED <<metricVars, containers, customNames, groupedContainers,
                   isUserInteracting, editingContainerId, editingGroupName,
                   viewMode, focus, dragged, timers, calls, netVars, pushLog>>
    /\ Clicking

\* The synchronous part of a mutation ends at its fetch: the call is in flight.
MonoIssue(call) ==
    /\ Len(calls) < MaxMonoCalls
    /\ calls' = Append(calls, call)

\* updateContainerName(container.id, editingName), up to its await
MonoUpdateContainerName(c) ==
    /\ editingContainerId = c.id
    /\ isUserInteracting' = startEditing
    /\ customNames' = [customNames EXCEPT !.containers = Put(@, c.id, editingName)]
    /\ containers' = RenameIn(containers, c.id, editingName)
    /\ groupedContainers' =
          updateGroupedContainers(containers', customNames'.container_groups)
    /\ editingContainerId' = Null
    /\ editingName' = Empty
    /\ MonoIssue(MonoCall("updateContainerName", c.id, editingName,
                          Find(containers, c.id).name,
                          Get(customNames.containers, c.id), NoContainer))
    /\ ev' = EvOther
    /\ UNCHANGED <<metricVars, editingGroupName, viewMode, focus, dragged, timers,
                   netVars, pushLog>>
    /\ Clicking

\* updateGroupName(groupName, editingName), up to its await
MonoUpdateGroupName(g) ==
    /\ editingGroupName = g
    /\ isUserInteracting' = startEditing
    /\ customNames' = [customNames EXCEPT !.groups = Put(@, g, editingName)]
    /\ editingGroupName' = Null
    /\ editingName' = Empty
    /\ MonoIssue(MonoCall("updateGroupName", g, editingName,
                          OrElse(Get(customNames.groups, g), g),
                          Get(customNames.groups, g), NoContainer))
    /\ ev' = EvOther
    /\ UNCHANGED <<metricVars, containers, groupedContainers, editingContainerId,
                   viewMode, focus, dragged, timers, netVars, pushLog>>
    /\ Clicking

\* The overlay entry a mutation writes.
OverlayEntry(names, call) ==
    CASE call.kind = "updateContainerName" -> Get(names.containers, call.key)
      [] call.kind = "resetContainerName" -> Get(names.containers, call.key)
      [] call.kind = "updateGroupName" -> Get(names.groups, call.key)
      [] call.kind = "updateContainerGroup" -> Get(names.container_groups, call.key)

\* The calls in flight on the entry of call i, other than i.
Rivals(i) ==
    {j \in 1..Len(calls) :
        j # i /\ calls[j].kind = calls[i].kind /\ calls[j].key = calls[i].key}

\* The other calls in flight, told how call i ended.
Told(i, outcome) ==
    [j \in 1..Len(calls) |->
        IF j \in Rivals(i) /\ j > i /\ outcome = "failed"
        THEN [calls[j] EXCEPT !.olderFailed = TRUE]
        ELSE IF j \in Rivals(i) /\ j < i /\ outcome = "ok"
        THEN [calls[j] EXCEPT !.newerOk = calls[i].name]
        ELSE calls[j]]

\* The value of the later of two raced renames, once one failed and the later
\* succeeded and both are settled.
Expected(call, outcome) ==
    IF outcome = "ok" /\ call.olderFailed THEN call.name
    ELSE IF outcome = "failed" /\ call.newerOk # Null THEN call.newerOk
    ELSE Null

\* Nothing but call i wrote its entry since it started.
Clean(i) ==
    /\ Rivals(i) = {}
    /\ ~calls[i].olderFailed
    /\ calls[i].newerOk = Null
    /\ OverlayEntry(customNames, calls[i]) = calls[i].name

\* A rollback that puts back a containers map without any custom name.
RevertContainerName_wipe(call) ==
    IF Truthy(call.original)
    THEN /\ customNames' = [customNames EXCEPT !.containers = <<>>]
         /\ containers' = RenameIn(containers, call.key, call.original)
         /\ groupedContainers' =
               updateGroupedContainers(containers', customNames'.container_groups)
    ELSE UNCHANGED <<customNames, containers, groupedContainers>>

\* `if (!res.ok) { ... }` of updateContainerName
RevertContainerName(call) ==
    IF Truthy(call.original)
    THEN /\ customNames' = [customNames EXCEPT !.containers = Del(@, call.key)]
         /\ containers' = RenameIn(containers, call.key, call.original)
         /\ groupedContainers' =
               updateGroupedContainers(containers', customNames'.container_groups)
    ELSE UNCHANGED <<customNames, containers, groupedContainers>>

\* `if (!res.ok) { ... }` of resetContainerName
RevertResetContainerName(call) ==
    IF Truthy(call.original)
    THEN /\ customNames' = [customNames EXCEPT !.containers = Put(@, call.key, call.original)]
         /\ containers' = RenameIn(containers, call.key, call.original)
         /\ groupedContainers' =
               updateGroupedContainers(containers', customNames'.container_groups)
    ELSE UNCHANGED <<customNames, containers, groupedContainers>>

\* `if (!res.ok) { ... }` of updateGroupName
RevertGroupName(call) ==
    /\ customNames' =
          [customNames EXCEPT !.groups =
              IF call.original # call.key
              THEN Put(Del(@, call.key), call.key, call.original)
              ELSE Del(@, call.key)]
    /\ UNCHANGED <<containers, groupedContainers>>

\* `if (!res.ok) { ... }` of updateContainerGroup; call.name is the new group
RevertContainerGroup(call) ==
    /\ customNames' =
          [customNames EXCEPT !.container_groups =
              IF ~Has(@, call.key) THEN @
              ELSE IF call.original = getDefaultGroupById(call.key, containers)
              THEN Del(@, call.key)
              ELSE Put(@, call.key, call.original)]
    /\ groupedContainers' =
          IF call.container = NoContainer THEN groupedContainers
          ELSE MoveMember(groupedContainers, call.name, call.original,
                          call.container)
    /\ UNCHANGED containers

\* The rest of a mutation after its await: the response is OK, is not OK, or
\* the fetch threw (the catch block only ends the guard).
MonoResolve(i, outcome) ==
    /\ i \in 1..Len(calls)
    /\ IF outcome = "failed"
       THEN CASE calls[i].kind = "updateContainerName" -> RevertContainerName(calls[i])
              [] calls[i].kind = "resetContainerName" -> RevertResetContainerName(calls[i])
              [] calls[i].kind = "updateGroupName" -> RevertGroupName(calls[i])
              [] calls[i].kind = "updateContainerGroup" -> RevertContainerGroup(calls[i])
       ELSE UNCHANGED <<customNames, containers, groupedContainers>>
    /\ isUserInteracting' = stopEditing
    /\ calls' = Without(Told(i, outcome), i)
    /\ ev' = EvSettle(calls[i], outcome, Clean(i), Expected(calls[i], outcome))
    /\ UNCHANGED <<metricVars, editVars, viewMode, focus, dragged, timers, netVars,
                   pushLog, gestures>>

\* draggable: handleDragStart
MonoDragStart(c) ==
    /\ dragged = NoDrag
    /\ isUserInteracting' = startDragging
    /\ dragged' = [id |-> c.id, dropped |-> FALSE]
    /\ ev' = EvOther
    /\ UNCHANGED <<metricVars, containers, customNames, groupedContainers, editVars,
                   viewMode, focus, timers, calls, netVars, pushLog>>
    /\ Gesture

\* draggable: handleDragEnd
MonoDragEnd ==
    /\ dragged # NoDrag
    /\ isUserInteracting' = stopDragging
    /\ dragged' = NoDrag
    /\ ev' = EvOther
    /\ UNCHANGED <<metricVars, containers, customNames, groupedContainers, editVars,
                   viewMode, focus, timers, calls, netVars, pushLog>>
    /\ Gesture

\* dropZone: handleDrop on a group's header, through handleContainerDrop and
\* updateContainerGroup up to its await.  handleContainerDrop has written the
\* overlay before updateContainerGroup reads its originalGroup from it; the
\* fetchContainers() that follows returns at once, the guard being active.
MonoDrop(g) ==
    /\ dragged # NoDrag
    /\ ~dragged.dropped
    /\ timers.stop < MaxTimers
    /\ dragged' = [dragged EXCEPT !.dropped = TRUE]
    /\ isUserInteracting' = startEditing
    /\ IF getContainerGroup(dragged.id, containers, customNames.container_groups) = g
       THEN /\ timers' = [timers EXCEPT !.stop = @ + 1]
            /\ UNCHANGED <<customNames, groupedContainers, calls>>
       ELSE /\ timers.fetch < MaxTimers
            /\ timers' = [stop |-> timers.stop + 1, fetch |-> timers.fetch + 1]
            /\ customNames' = [customNames EXCEPT
                                  !.container_groups = Put(@, dragged.id, g)]
            /\ LET originalGroup ==
                      OrElse(Get(customNames'.container_groups, dragged.id),
                             getDefaultGroupById(dragged.id, containers))
                   container == Find(containers, dragged.id)
               IN  /\ groupedContainers' =
                         IF container = NoContainer THEN groupedContainers
                         ELSE MoveMember(groupedContainers, originalGroup, g,
                                         container)
                   /\ MonoIssue(MonoCall("updateContainerGroup", dragged.id, g,
                                         originalGroup,
                                         Get(customNames.container_groups, dragged.id),
                                         container))
    /\ ev' = EvOther
    /\ UNCHANGED <<metricVars, containers, editVars, viewMode, focus, netVars,
                   pushLog>>
    /\ Gesture

\* setTimeout(() => stopEditing(), 500) of handleDrop
MonoDropTimer ==
    /\ timers.stop > 0
    /\ isUserInteracting' = stopEditing
    /\ timers' = [timers EXCEPT !.stop = @ - 1]
    /\ ev' = EvOther
    /\ UNCHANGED <<metricVars, containers, customNames, groupedContainers, editVars,
                   viewMode, focus, dragged, calls, netVars, pushLog, gestures>>

\* ev of a call of fetchContainers, up to its await
EvTick == [op |-> "tick", ok |-> TRUE, list |-> <<>>, data |-> NoData]

\* fetchContainers, up to its await: nothing is requested under the guard
MonoFetchStart ==
    /\ isUserInteracting \/ pulls < MaxPulls
    /\ pulls' = IF isUserInteracting THEN pulls ELSE pulls + 1
    /\ ev' = EvTick

\* setInterval(fetchContainers, REFRESH_INTERVAL)
MonoFetchTick ==
    /\ MonoFetchStart
    /\ UNCHANGED <<metricVars, containers, customNames, groupedContainers,
                   isUserInteracting, editVars, viewMode, focus, dragged, timers,
                   calls, initPc, sock, pushLog, gestures>>

\* setTimeout(fetchContainers, 500) of handleContainerDrop
MonoFetchTimer ==
    /\ timers.fetch > 0
    /\ timers' = [timers EXCEPT !.fetch = @ - 1]
    /\ MonoFetchStart
    /\ UNCHANGED <<metricVars, containers, customNames, groupedContainers,
                   isUserInteracting, editVars, viewMode, focus, dragged, calls,
                   initPc, sock, pushLog, gestures>>

\* fetchContainers after its await: a failed request changes nothing
MonoFetchDone ==
    /\ pulls > 0
    /\ pulls' = pulls - 1
    /\ \E ok \in BOOLEAN, payload \in PullPayloads :
          /\ containers' = IF ok THEN payload ELSE containers
          /\ groupedContainers' =
                IF ok THEN updateGroupedContainers(payload, customNames.container_groups)
                ELSE groupedContainers
          /\ ev' = EvPull(ok, payload)
    /\ UNCHANGED <<metricVars, customNames, isUserInteracting, editVars, viewMode,
                   focus, dragged, timers, calls, initPc, sock, pushLog, gestures>>

\* socket.on("update_stats") of the single-file page
MonoUpdateStats ==
    /\ \E data \in MonoPushes :
          /\ ev' = EvPush(data)
          /\ IF isUserInteracting
             THEN UNCHANGED <<metricVars, customNames>>
             ELSE /\ stats' = data.containers
                  /\ systemInfo' = data.system_info
                  /\ customNames' =
                        IF editingContainerId = Null /\ editingGroupName = Null
                        THEN data.custom_names ELSE customNames
                  /\ networkHistory' =
                        MonoNetworkHistory(networkHistory, data.containers)
    /\ UNCHANGED <<containers, groupedContainers, isUserInteracting, editVars,
                   viewMode, focus, dragged, timers, calls, netVars, pushLog,
                   gestures>>

MonoUser ==
    \/ \E c \in Shown : MonoStartEditingContainer(c)
    \/ \E g \in GroupKeys(groupedContainers) : MonoStartEditingGroup(g)
    \/ MonoCancelEditing
    \/ MonoTypeName
    \/ \E c \in Shown : MonoUpdateContainerName(c)
    \/ \E g \in GroupKeys(groupedContainers) : MonoUpdateGroupName(g)
    \/ \E c \in Shown : MonoDragStart(c)
    \/ MonoDragEnd
    \/ \E g \in GroupKeys(groupedContainers) : MonoDrop(g)

MonoSystem ==
    \/ \E i \in 1..Len(calls), outcome \in {"ok", "failed", "threw"} :
          MonoResolve(i, outcome)
    \/ MonoDropTimer
    \/ MonoFetchTick
    \/ MonoFetchTimer
    \/ MonoFetchDone
    \/ MonoUpdateStats

MonoNext == MonoUser \/ MonoSystem

\* MonoSpec: the single-file page, loaded and connected, and its user.
MonoInit ==
    /\ PageInit
    /\ customNames \in MonoOverlays

MonoSpec == MonoInit /\ [][MonoNext]_vars

\* resetContainerName(container.id), up to its await; the button is rendered
\* {#if customNames.containers[container.id]}
MonoResetContainerName(c) ==
    /\ Truthy(Get(customNames.containers, c.id))
    /\ isUserInteracting' = startEditing
    /\ customNames' = [customNames EXCEPT !.containers = Del(@, c.id)]
    /\ containers' = RenameIn(containers, c.id, c.name)
    /\ groupedContainers' =
          updateGroupedContainers(containers', customNames'.container_groups)
    /\ MonoIssue(MonoCall("resetContainerName", c.id, Null,
                          Get(customNames.containers, c.id),
                          Get(customNames.containers, c.id), NoContainer))
    /\ ev' = EvOther
    /\ UNCHANGED <<metricVars, editVars, viewMode, focus, dragged, timers, netVars,
                   pushLog>>
    /\ Clicking

\* An overlay with an entry in each of its three maps
RenameOverlays ==
    { [containers |-> One(IdC2, TextB), groups |-> One(NameGroupW, TextB),
       container_groups |-> One(IdC2, NameGroupW)],
      [containers |-> [k \in {IdC1, IdC2} |-> IF k = IdC1 THEN TextA ELSE TextB],
       groups |-> One(NameGroupW, TextB),
       container_groups |-> One(IdC2, NameGroupW)] }

\* RenameSpec: the single-file page and the mutations of a container's name
RenameInit ==
    /\ \E payload \in {<<E1x, E2>>, <<E2, E1>>}, names \in RenameOverlays, s \in SyncStats :
          /\ containers = payload
          /\ customNames = names
          /\ stats = s
          /\ networkHistory = FullHistory(s)
          /\ groupedContainers = updateGroupedContainers(payload, names.container_groups)
    /\ systemInfo = SysInfo1
    /\ isUserInteracting = FALSE
    /\ editingContainerId = Null
    /\ editingGroupName = Null
    /\ editingName = Empty
    /\ viewMode = "groups"
    /\ focus = "none"
    /\ dragged = NoDrag
    /\ timers = [stop |-> 0, fetch |-> 0]
    /\ calls = <<>>
    /\ pulls = 0
    /\ initPc = "done"
    /\ sock = [state |-> "connected", emits |-> 1, refreshes |-> 1, again |-> FALSE,
               attempts |-> 0]
    /\ gestures = 0
    /\ pushLog = <<>>
    /\ ev = EvOther

RenameNext ==
    \/ \E c \in Shown : MonoStartEditingContainer(c)
    \/ MonoCancelEditing
    \/ MonoTypeName
    \/ \E c \in Shown : MonoUpdateContainerName(c)
    \/ \E c \in Shown : MonoResetContainerName(c)
    \/ \E i \in 1..Len(calls), outcome \in {"ok", "failed", "threw"} :
          MonoResolve(i, outcome)
    \/ MonoUpdateStats

RenameSpec == RenameInit /\ [][RenameNext]_vars

----------------------------------------------------------------------------
(* The store version's push handler on a payload with a field missing *)

\* `undefined` as a store's value, kept in the shape of the store's values.
UndefinedStats == One(Null, Stat(0, 0))
UndefinedInfo == [MemTotal |-> -1, NCPU |-> -1]
UndefinedNames == [containers |-> One(Null, Null), groups |-> <<>>,
                   container_groups |-> <<>>]

MissingFields == {"containers", "system_info", "custom_names"}

EvMalformed(data, missing) ==
    [op |-> "malformed", ok |-> FALSE, list |-> <<>>, data |-> data,
     missing |-> missing]

\* socket.on("update_stats") when data lacks the field `missing`:
\*  - containers: stats.set(undefined), systemInfo.set(...), then Object.values
\*    throws in updateNetworkHistory and the handler ends there;
\*  - system_info: systemInfo.set(undefined), the rest as usual;
\*  - custom_names: customNames.set(undefined) unless an input has the focus;
\*    the derived groupedContainers throws on it and keeps its value.
MalformedUpdateStats(data, missing) ==
    /\ sock.state = "connected"
    /\ stats' = IF missing = "containers" THEN UndefinedStats ELSE data.containers
    /\ systemInfo' = IF missing = "system_info" THEN UndefinedInfo
                     ELSE data.system_info
    /\ networkHistory' = IF missing = "containers" THEN networkHistory
                         ELSE updateNetworkHistory(networkHistory, data.containers)
    /\ IF missing = "containers" \/ focus # "none"
       THEN UNCHANGED <<customNames, groupedContainers, focus>>
       ELSE IF missing = "custom_names"
       THEN /\ customNames' = UndefinedNames
            /\ UNCHANGED <<groupedContainers, focus>>
       ELSE SetCustomNames(data.custom_names)
    /\ ev' = EvMalformed(data, missing)
    /\ UNCHANGED <<containers, isUserInteracting, editVars, viewMode, dragged,
                   timers, calls, netVars, pushLog, gestures>>

MalformedPush ==
    \E data \in SyncPushes, missing \in MissingFields :
        MalformedUpdateStats(data, missing)

\* MalformedSpec: the loaded page, a user who opens container forms, and a
\* backend whose pushes may lack a field.
MalformedNext ==
    \/ PagePush
    \/ MalformedPush
    \/ \E c \in Shown : StartEditingContainer(c)
    \/ CancelEditingContainer
    \/ FocusInput

MalformedSpec == PageInit /\ [][MalformedNext]_vars

----------------------------------------------------------------------------
(* api/containerService.ts: the six remote mutation calls *)

MutationKinds ==
    {"updateContainerName", "updateGroupName", "resetContainerName",
     "resetGroupName", "updateContainerGroup", "resetContainerGroup"}

\* What `await fetch(...)` does: it resolves with a response that is OK or
\* not, or it rejects (network error).
Responses == {"ok", "notOk", "rejected"}

\* try { const res = await fetch(...); return res.ok; }
\* catch (e) { console.error(...); return false; }
\* the same body in all six functions: what the caller gets.
MutationCall_rethrow(kind, response) ==
    [threw |-> response = "rejected", value |-> response = "ok"]

MutationCall(kind, response) ==
    IF response = "rejected" THEN [threw |-> FALSE, value |-> FALSE]
    ELSE [threw |-> FALSE, value |-> response = "ok"]

EvResult(call, response, result) ==
    [op |-> "result", ok |-> result.value, list |-> <<>>, data |-> NoData,
     kind |-> call.kind, response |-> response, threw |-> result.threw,
     value |-> result.value]

\* a caller invokes one of the six functions: the fetch is sent
ServiceRequest ==
    /\ Len(calls) < MaxServiceCalls
    /\ \E kind \in MutationKinds, key \in Ids \cup {NameGroupW, NameGroupD} :
          calls' = Append(calls, Call(kind, Null, key, TextA, Null))
    /\ ev' = EvOther
    /\ UNCHANGED <<metricVars, containers, customNames, groupedContainers,
                   isUserInteracting, editVars, viewMode, focus, dragged, timers,
                   netVars, pushLog, gestures>>

\* the fetch settles and the function returns to its caller
ServiceRespond ==
    /\ \E i \in 1..Len(calls), response \in Responses :
          /\ calls' = Without(calls, i)
          /\ ev' = EvResult(calls[i], response,
                            MutationCall(calls[i].kind, response))
    /\ UNCHANGED <<metricVars, containers, customNames, groupedContainers,
                   isUserInteracting, editVars, viewMode, focus, dragged, timers,
                   netVars, pushLog, gestures>>

ServiceNext == ServiceRequest \/ ServiceRespond

ServiceSpec == Init /\ [][ServiceNext]_vars

----------------------------------------------------------------------------
(* Group resolution: lib/utils/containerHelpers.ts applied to a container list
   and to the overrides of container_groups as the components write them. *)

\* The groups a container can be moved to: the targets of a drop.
GroupNames == {NameGroupW, NameGroupD, TextA}

\* ev of a resolution: the group before the write and after it.  orig is the
\* group the container resolved to before the override that is being cleared
\* was set, when that set was the step before and found no override.
EvGroup(kind, key, had, was, now, orig) ==
    [op |-> "group", ok |-> TRUE, list |-> <<>>, data |-> NoData, kind |-> kind,
     key |-> key, had |-> had, was |-> was, now |-> now, orig |-> orig]

WriteGroups(kind, key, cg) ==
    /\ customNames' = [customNames EXCEPT !.container_groups = cg]
    /\ groupedContainers' = updateGroupedContainers(containers, cg)
    /\ ev' = EvGroup(kind, key, Has(customNames.container_groups, key),
                     getContainerGroup(key, containers, customNames.container_groups),
                     getContainerGroup(key, containers, cg),
                     IF ev.op = "group" /\ kind = "clear"
                     THEN IF ev.kind = "set" /\ ev.key = key /\ ~ev.had
                          THEN ev.was ELSE Null
                     ELSE Null)
    /\ UNCHANGED <<metricVars, containers, isUserInteracting, editVars, viewMode,
                   focus, dragged, timers, calls, netVars, pushLog, gestures>>

\* customNames.container_groups[data.id] = groupName
SetContainerGroup ==
    \E c \in Shown, g \in GroupNames :
        WriteGroups("set", c.id, Put(customNames.container_groups, c.id, g))

\* delete customNames.container_groups[key]
ClearContainerGroup ==
    \E c \in Shown :
        /\ Has(customNames.container_groups, c.id)
        /\ WriteGroups("clear", c.id, Del(customNames.container_groups, c.id))

GroupInit == PageInit /\ containers # <<>>

GroupNext == SetContainerGroup \/ ClearContainerGroup

GroupSpec == GroupInit /\ [][GroupNext]_vars

----------------------------------------------------------------------------
(* stores/containerStore.ts: sortedContainers, and SortOptions.svelte which
   sets its field and direction.  In SortSpec ev holds the sort preference
   (sortField, sortDirection) last set and the list derived from it; the
   dropdown's showSortOptions and the copy kept in localStorage are left out. *)

IdC3 == <<"c", "3">>

\* The containers that are sorted: names in both letter cases.
SortEntities ==
    {Entity(IdC1, <<"a">>, "running"), Entity(IdC2, <<"B">>, "exited"),
     Entity(IdC3, <<"A">>, "running"), Entity(IdC3, <<"A", "b">>, "paused")}

SortLists ==
    {<<a, b, c>> : a, b, c \in SortEntities} \cup {<<a, b>> : a, b \in SortEntities}

\* A Stats object of the backend, all its sort fields present.
SortStat(m, c) ==
    [memory_usage |-> m, cpu_percent |-> c, network_rx |-> c, network_tx |-> m,
     io_read |-> m + c, io_write |-> c, uptime |-> m]

SortStatValues == {SortStat(5, 0), SortStat(1, 2), SortStat(3, 2)}

\* The metrics maps: a container may have no entry yet.
SortStats == UNION {[ids -> SortStatValues] : ids \in SUBSET {IdC1, IdC2, IdC3}}

SortFields ==
    {"memory", "cpu", "name", "network_rx", "network_tx", "io_read", "io_write",
     "uptime", "status"}

SortDirections == {"asc", "desc"}

\* UTF-16 code units of the letters that names are made of
CodeUnit(ch) ==
    CASE ch = "-" -> 45 [] ch = "1" -> 49 [] ch = "A" -> 65 [] ch = "B" -> 66
      [] ch = "_" -> 95 [] ch = "a" -> 97 [] ch = "b" -> 98 [] ch = "d" -> 100
      [] ch = "w" -> 119

toLowerCase_same(str) == str

\* String.prototype.toLowerCase
toLowerCase(str) ==
    [n \in 1..Len(str) |-> CASE str[n] = "A" -> "a" [] str[n] = "B" -> "b"
                             [] OTHER -> str[n]]

\* a < b on two strings: by code units, a proper prefix first
StringLess(a, b) ==
    \E k \in 1..(Len(a) + 1) :
        /\ \A n \in 1..(k - 1) : n <= Len(b) /\ a[n] = b[n]
        /\ k <= Len(b)
        /\ k <= Len(a) => CodeUnit(a[k]) < CodeUnit(b[k])

\* Values that rank every status: running, then exited, then the others.
SortValue_ranked(c, statsMap, field) ==
    LET st == IF Has(statsMap, c.id) THEN statsMap[c.id] ELSE <<>>
        num(k) == IF Has(st, k) THEN st[k] ELSE 0
    IN  CASE field = "memory" -> num("memory_usage")
          [] field = "cpu" -> num("cpu_percent")
          [] field = "name" -> toLowerCase(c.name)
          [] field = "network_rx" -> num("network_rx")
          [] field = "network_tx" -> num("network_tx")
          [] field = "io_read" -> num("io_read")
          [] field = "io_write" -> num("io_write")
          [] field = "uptime" -> num("uptime")
          [] field = "status" -> IF c.status = "running" THEN 2
                                 ELSE IF c.status = "exited" THEN 1 ELSE 0
          [] OTHER -> num("memory_usage")

\* {...c, stats: $stats?.[c.id] || {}} and the switch on $sortField
SortValue(c, statsMap, field) ==
    LET st == IF Has(statsMap, c.id) THEN statsMap[c.id] ELSE <<>>
        num(k) == IF Has(st, k) THEN st[k] ELSE 0
    IN  CASE field = "memory" -> num("memory_usage")
          [] field = "cpu" -> num("cpu_percent")
          [] field = "name" -> toLowerCase(c.name)
          [] field = "network_rx" -> num("network_rx")
          [] field = "network_tx" -> num("network_tx")
          [] field = "io_read" -> num("io_read")
          [] field = "io_write" -> num("io_write")
          [] field = "uptime" -> num("uptime")
          [] field = "status" -> IF c.status = "running" THEN 1 ELSE 0
          [] OTHER -> num("memory_usage")

\* aValue < bValue
ValueLess(a, b, field) == IF field = "name" THEN StringLess(a, b) ELSE a < b

SortCompare_asc(a, b, statsMap, field, direction) ==
    LET aValue == SortValue(a, statsMap, field)
        bValue == SortValue(b, statsMap, field)
    IN  IF ValueLess(bValue, aValue, field) THEN 1
        ELSE IF ValueLess(aValue, bValue, field) THEN -1 ELSE 0

\* The comparator handed to Array.prototype.sort
SortCompare(a, b, statsMap, field, direction) ==
    LET aValue == SortValue(a, statsMap, field)
        bValue == SortValue(b, statsMap, field)
    IN  IF direction = "asc"
        THEN IF ValueLess(bValue, aValue, field) THEN 1
             ELSE IF ValueLess(aValue, bValue, field) THEN -1 ELSE 0
        ELSE IF ValueLess(aValue, bValue, field) THEN 1
             ELSE IF ValueLess(bValue, aValue, field) THEN -1 ELSE 0

\* Array.prototype.sort is stable: an element goes behind every element that
\* came before it and does not compare greater.
SortInsert(sorted, x, statsMap, field, direction) ==
    LET after == {n \in 1..Len(sorted) :
                     SortCompare(sorted[n], x, statsMap, field, direction) > 0}
        at == IF after = {} THEN Len(sorted) + 1
              ELSE CHOOSE n \in after : \A m \in after : n <= m
    IN  SubSeq(sorted, 1, at - 1) \o <<x>> \o SubSeq(sorted, at, Len(sorted))

RECURSIVE sortedContainers(_, _, _, _)
sortedContainers(list, statsMap, field, direction) ==
    IF list = <<>> THEN <<>>
    ELSE SortInsert(sortedContainers(SubSeq(list, 1, Len(list) - 1), statsMap,
                                     field, direction),
                    list[Len(list)], statsMap, field, direction)

\* Sorting the store's own array: no copy is made.
ArrayMap_alias(list, statsMap) == [copy |-> FALSE, items |-> list]

\* ($containers || []).map(c => ({ ...c, stats: ... })): a new array of new
\* objects; the stats of an item are read through SortValue
ArrayMap(list, statsMap) == [copy |-> TRUE, items |-> list]

\* The store's array after the derived callback ran: Array.prototype.sort
\* sorts its receiver in place.
ArrayAfterSort(list, statsMap, field, direction) ==
    IF ArrayMap(list, statsMap).copy THEN list
    ELSE sortedContainers(ArrayMap(list, statsMap).items, statsMap, field, direction)

\* ev of SortSpec: toggled when the step flipped the direction of the same
\* field, before is the list shown before the step.
EvSort(field, direction, result, toggled, before) ==
    [op |-> "sort", ok |-> TRUE, list |-> <<>>, data |-> NoData, field |-> field,
     direction |-> direction, result |-> result, toggled |-> toggled,
     before |-> before]

\* SortOptions.svelte: setSortOption(field)
setSortOption ==
    /\ \E field \in SortFields :
          LET newDirection ==
                  IF ev.field = field
                  THEN IF ev.direction = "asc" THEN "desc" ELSE "asc"
                  ELSE IF field = "name" \/ field = "status" THEN "asc" ELSE "desc"
          IN  /\ ev' = EvSort(field, newDirection,
                              sortedContainers(containers, stats, field, newDirection),
                              ev.field = field, ev.result)
              /\ containers' = ArrayAfterSort(containers, stats, field, newDirection)
    /\ UNCHANGED <<metricVars, customNames, groupedContainers,
                   isUserInteracting, editVars, viewMode, focus, dragged, timers,
                   calls, netVars, pushLog, gestures>>

\* A loaded list page; initializeStoresFromLocalStorage has set the saved
\* field and direction.
SortInit ==
    /\ containers \in {l \in SortLists : \A m, n \in 1..Len(l) : l[m].id = l[n].id => m = n}
    /\ stats \in SortStats
    /\ \E field \in SortFields, direction \in SortDirections :
          ev = EvSort(field, direction,
                      sortedContainers(containers, stats, field, direction),
                      FALSE, <<>>)
    /\ systemInfo = SysInfo1
    /\ customNames = EmptyNames
    /\ networkHistory = [rx |-> <<>>, tx |-> <<>>]
    /\ isUserInteracting = FALSE
    /\ editingContainerId = Null
    /\ editingGroupName = Null
    /\ editingName = Empty
    /\ viewMode = "list"
    /\ focus = "none"
    /\ dragged = NoDrag
    /\ timers = [stop |-> 0, fetch |-> 0]
    /\ calls = <<>>
    /\ pulls = 0
    /\ initPc = "done"
    /\ sock = [state |-> "connected", emits |-> 1, refreshes |-> 1, again |-> FALSE,
               attempts |-> 0]
    /\ groupedContainers = updateGroupedContainers(containers, <<>>)
    /\ gestures = 0
    /\ pushLog = <<>>

SortNext == setSortOption

SortSpec == SortInit /\ [][SortNext]_vars

----------------------------------------------------------------------------
(* stores/containerStore.ts: totalStats and groupTotals, and the pushes that
   feed them.  A JS number is a record: NaN, or a value. *)

JsNum(n) == [nan |-> FALSE, v |-> n]
NaN == [nan |-> TRUE, v |-> 0]

\* a + b
JsAdd(a, b) == IF a.nan \/ b.nan THEN NaN ELSE JsNum(a.v + b.v)

\* stat.field as an operand of +: undefined becomes NaN
FieldNum(stat, field) == IF Has(stat, field) THEN JsNum(stat[field]) ELSE NaN

\* stat.field || 0
FieldOrZero(stat, field) == IF Has(stat, field) THEN stat[field] ELSE 0

\* statsValues.reduce((sum, stat) => sum + stat.field, 0)
RECURSIVE SumField(_, _)
SumField(m, field) ==
    IF DOMAIN m = {} THEN JsNum(0)
    ELSE LET k == CHOOSE x \in DOMAIN m : TRUE
         IN  JsAdd(SumField(Del(m, k), field), FieldNum(m[k], field))

Max2(a, b) == IF a >= b THEN a ELSE b

\* statsValues.reduce((max, stat) => Math.max(max, stat.field || 0), 0)
RECURSIVE MaxField(_, _)
MaxField(m, field) ==
    IF DOMAIN m = {} THEN 0
    ELSE LET k == CHOOSE x \in DOMAIN m : TRUE
         IN  Max2(MaxField(Del(m, k), field), FieldOrZero(m[k], field))

totalStats_maxLimit(statsMap, info) ==
    [cpuPercent |-> SumField(statsMap, "cpu_percent"),
     cpuCount |-> MaxField(statsMap, "cpu_count"),
     memoryUsage |-> SumField(statsMap, "memory_usage"),
     memoryLimit |-> MaxField(statsMap, "memory_limit"),
     networkRx |-> SumField(statsMap, "network_rx"),
     networkTx |-> SumField(statsMap, "network_tx"),
     ioRead |-> SumField(statsMap, "io_read"),
     ioWrite |-> SumField(statsMap, "io_write")]

totalStats(statsMap, info) ==
    [cpuPercent |-> SumField(statsMap, "cpu_percent"),
     cpuCount |-> MaxField(statsMap, "cpu_count"),
     memoryUsage |-> SumField(statsMap, "memory_usage"),
     memoryLimit |-> info.MemTotal,
     networkRx |-> SumField(statsMap, "network_rx"),
     networkTx |-> SumField(statsMap, "network_tx"),
     ioRead |-> SumField(statsMap, "io_read"),
     ioWrite |-> SumField(statsMap, "io_write")]

\* $stats?.[c.id] || { cpu_percent: 0, cpu_count: 0, ... }
DefaultStat ==
    [cpu_percent |-> 0, cpu_count |-> 0, memory_usage |-> 0, memory_limit |-> 0,
     network_rx |-> 0, network_tx |-> 0, io_read |-> 0, io_write |-> 0]

groupStats(members, statsMap) ==
    [n \in 1..Len(members) |->
        IF Has(statsMap, members[n].id) THEN statsMap[members[n].id] ELSE DefaultStat]

\* groupStats.reduce((sum, stat) => sum + stat.field, 0)
RECURSIVE SumOver(_, _)
SumOver(list, field) ==
    IF list = <<>> THEN JsNum(0)
    ELSE JsAdd(SumOver(SubSeq(list, 1, Len(list) - 1), field),
               FieldNum(list[Len(list)], field))

\* Math.max(...groupStats.map(stat => stat.field || 0)); a group has a member
MaxOver(list, field) ==
    LET values == {FieldOrZero(list[n], field) : n \in 1..Len(list)}
    IN  CHOOSE x \in values : \A y \in values : y <= x

groupTotal(members, statsMap) ==
    LET gs == groupStats(members, statsMap)
    IN  [cpu |-> SumOver(gs, "cpu_percent"),
         cpuCount |-> MaxOver(gs, "cpu_count"),
         memory |-> SumOver(gs, "memory_usage"),
         memoryLimit |-> MaxOver(gs, "memory_limit"),
         networkRx |-> SumOver(gs, "network_rx"),
         networkTx |-> SumOver(gs, "network_tx"),
         ioRead |-> SumOver(gs, "io_read"),
         ioWrite |-> SumOver(gs, "io_write")]

\* groupTotals: a record per key of $groupedContainers
groupTotals(grouped, statsMap) ==
    [g \in GroupKeys(grouped) |-> groupTotal(MembersOf(grouped, g), statsMap)]

\* The Stats objects of a snapshot, and the same with one field missing.
StatsA ==
    [cpu_percent |-> 2, cpu_count |-> 4, memory_usage |-> 3, memory_limit |-> 8,
     network_rx |-> 1, network_tx |-> 2, io_read |-> 1, io_write |-> 0]
StatsB ==
    [cpu_percent |-> 1, cpu_count |-> 2, memory_usage |-> 5, memory_limit |-> 6,
     network_rx |-> 2, network_tx |-> 0, io_read |-> 0, io_write |-> 3]

StatFields == DOMAIN DefaultStat

Lacking(stat, field) == [k \in (DOMAIN stat) \ {field} |-> stat[k]]

TotalsStats ==
    LET first == {StatsA} \cup {Lacking(StatsA, f) : f \in StatFields}
        second == {StatsB, Lacking(StatsB, "cpu_count")}
    IN  {m \in UNION {[ids -> first \cup second] : ids \in SUBSET Ids} :
            /\ IdC1 \in DOMAIN m => m[IdC1] \in first
            /\ IdC2 \in DOMAIN m => m[IdC2] \in second}

SysInfo16 == [MemTotal |-> 16, NCPU |-> 4]

\* socket.on("update_stats") with these snapshots; the overlay of the backend
\* is the one the page holds.
TotalsPush ==
    /\ Len(pushLog) < MaxTotalsPushes
    /\ \E s \in TotalsStats, info \in {SysInfo1, SysInfo16} :
          /\ UpdateStats([containers |-> s, system_info |-> info,
                          custom_names |-> customNames])
          /\ pushLog' = Append(pushLog, [rx |-> SumRx(s), tx |-> SumTx(s)])

TotalsNext == TotalsPush \/ PullTick \/ PullDone

TotalsSpec == PageInit /\ [][TotalsNext]_vars

----------------------------------------------------------------------------
(* The derived stores over lists whose names resolve to several groups.
   updateGroupedContainers accumulates into an object literal: acc = {}
   inherits the properties of Object.prototype, so acc[groupName] of an
   inherited key is truthy before any container was pushed and has no push. *)

NameX1 == <<"x", "-", "1">>
NameCtor1 == <<"c", "o", "n", "s", "t", "r", "u", "c", "t", "o", "r", "-", "1">>
IdC4 == <<"c", "4">>

\* Property names every object literal inherits (a selection)
ObjectPrototypeKeys ==
    { <<"c", "o", "n", "s", "t", "r", "u", "c", "t", "o", "r">>,
      <<"t", "o", "S", "t", "r", "i", "n", "g">>,
      <<"v", "a", "l", "u", "e", "O", "f">> }

DerivedEntities ==
    {E1, E2, Entity(IdC3, NameX1, "exited"), Entity(IdC4, NameCtor1, "running")}

\* Lists of distinct containers
DerivedLists ==
    {<<>>} \cup {<<a>> : a \in DerivedEntities}
        \cup {l \in {<<a, b>> : a, b \in DerivedEntities} : l[1] # l[2]}
        \cup {l \in {<<a, b, c>> : a, b, c \in DerivedEntities} :
                 l[1] # l[2] /\ l[1] # l[3] /\ l[2] # l[3]}

\* acc[groupName].push(container) with acc[groupName] inherited: TypeError
ReduceThrows(list, cg) ==
    \E n \in 1..Len(list) : getContainerGroup(list[n].id, list, cg) \in ObjectPrototypeKeys

\* The value of the derived store groupedContainers after its callback ran:
\* a callback that throws sets nothing.
DeriveGrouped(list, cg, old) ==
    IF ReduceThrows(list, cg) THEN old ELSE updateGroupedContainers(list, cg)

\* a[1].some(c => c.status === "running") ? 1 : 0
GroupRunning(entry) ==
    IF \E k \in 1..Len(entry.members) : entry.members[k].status = "running" THEN 1 ELSE 0

\* A comparator that puts the groups without a running container first.
GroupCompare_idleFirst(a, b) == GroupRunning(a) - GroupRunning(b)

\* The comparator of sortedGroups: bRunning - aRunning
GroupCompare(a, b) == GroupRunning(b) - GroupRunning(a)

\* Array.prototype.sort on the entries, stable
GroupInsert(sorted, x) ==
    LET after == {n \in 1..Len(sorted) : GroupCompare(sorted[n], x) > 0}
        at == IF after = {} THEN Len(sorted) + 1
              ELSE CHOOSE n \in after : \A m \in after : n <= m
    IN  SubSeq(sorted, 1, at - 1) \o <<x>> \o SubSeq(sorted, at, Len(sorted))

\* Object.entries($groupedContainers || {}).sort(...)
RECURSIVE sortedGroups(_)
sortedGroups(grouped) ==
    IF grouped = <<>> THEN <<>>
    ELSE GroupInsert(sortedGroups(SubSeq(grouped, 1, Len(grouped) - 1)),
                     grouped[Len(grouped)])

DerivedInit ==
    /\ Init
    /\ initPc = "containers"

\* containers.set(list) of a pull
DerivedPull ==
    /\ \E list \in DerivedLists :
          /\ containers' = list
          /\ groupedContainers' =
                DeriveGrouped(list, customNames.container_groups, groupedContainers)
          /\ ev' = EvPull(TRUE, list)
    /\ UNCHANGED <<metricVars, customNames, isUserInteracting, editVars, viewMode,
                   focus, dragged, timers, calls, netVars, pushLog, gestures>>

\* customNames.container_groups[id] = groupName, or its delete
DerivedRegroup ==
    /\ \E c \in {containers[n] : n \in 1..Len(containers)}, g \in {NameGroupD, Null} :
          LET cg == IF g = Null THEN Del(customNames.container_groups, c.id)
                    ELSE Put(customNames.container_groups, c.id, g)
          IN  /\ cg # customNames.container_groups
              /\ customNames' = [customNames EXCEPT !.container_groups = cg]
              /\ groupedContainers' = DeriveGrouped(containers, cg, groupedContainers)
    /\ ev' = EvOther
    /\ UNCHANGED <<metricVars, containers, isUserInteracting, editVars, viewMode,
                   focus, dragged, timers, calls, netVars, pushLog, gestures>>

DerivedNext == DerivedPull \/ DerivedRegroup

DerivedSpec == DerivedInit /\ [][DerivedNext]_vars

\* Container names of up to MaxNameLen letters, separators anywhere
NameLetters == {"a", "b", "1", "-", "_"}

NamesOfLen(n) == [1..n -> NameLetters]

AllNames == UNION {NamesOfLen(n) : n \in 1..MaxNameLen}

\* A pull that answers with one container of any name
NamePull ==
    /\ \E name \in AllNames, status \in {"running", "exited"} :
          LET list == <<Entity(IdC1, name, status)>>
          IN  /\ containers' = list
              /\ groupedContainers' =
                    DeriveGrouped(list, customNames.container_groups, groupedContainers)
              /\ ev' = EvPull(TRUE, list)
    /\ UNCHANGED <<metricVars, customNames, isUserInteracting, editVars, viewMode,
                   focus, dragged, timers, calls, netVars, pushLog, gestures>>

NameNext == NamePull

NameSpec == DerivedInit /\ [][NameNext]_vars

----------------------------------------------------------------------------
(* routes/+page.svelte, the page that keeps its own reconnect timer beside the
   client's automatic reconnection.  sock holds the socket and the page's
   variables isConnected, connectionError, errorMessage, reconnectAttempts and
   reconnectInterval (0 is null); intervals are the interval timers alive. *)

maxReconnectAttempts == 5

\* io(SOCKET_URL, { reconnectionAttempts: 5 })
pageReconnectionAttempts == 5

EvSocket(op, s) ==
    [op |-> op, ok |-> TRUE, list |-> <<>>, data |-> NoData,
     was |-> s.reconnectAttempts, had |-> s.intervals # {}]

\* setInterval: a handle no live timer has
NewInterval(s) == CHOOSE id \in 1..(Cardinality(s.intervals) + 1) : id \notin s.intervals

\* clearInterval(reconnectInterval); reconnectInterval = null
ClearReconnect(s) ==
    IF s.reconnectInterval # 0
    THEN [s EXCEPT !.intervals = @ \ {s.reconnectInterval}, !.reconnectInterval = 0]
    ELSE s

\* A guard that starts a timer whether or not one is kept.
MayStartTimer_always(s) == s.reconnectAttempts < maxReconnectAttempts

\* if (!reconnectInterval && reconnectAttempts < maxReconnectAttempts)
MayStartTimer(s) ==
    s.reconnectInterval = 0 /\ s.reconnectAttempts < maxReconnectAttempts

\* reconnectInterval = setInterval(..., 5000) under its guard
StartReconnect(s) ==
    IF MayStartTimer(s)
    THEN [s EXCEPT !.intervals = @ \cup {NewInterval(s)},
                   !.reconnectInterval = NewInterval(s)]
    ELSE s

ReconnectFrame ==
    UNCHANGED <<metricVars, containers, customNames, groupedContainers,
                isUserInteracting, editVars, viewMode, focus, dragged, timers,
                calls, pulls, initPc, pushLog, gestures>>

\* socket.on("connect")
PageOnConnect ==
    /\ sock.state = "connecting"
    /\ sock' = ClearReconnect([sock EXCEPT !.state = "connected", !.attempts = 0,
                                           !.isConnected = TRUE,
                                           !.connectionError = FALSE,
                                           !.errorMessage = "",
                                           !.reconnectAttempts = 0])
    /\ ev' = EvSocket("connect", sock)
    /\ ReconnectFrame

\* socket.on("connect_error"): the client retries by itself until its own
\* attempts are used up
PageOnConnectError ==
    /\ sock.state = "connecting"
    /\ sock' = StartReconnect(
                  [sock EXCEPT !.state = IF sock.attempts + 1 < pageReconnectionAttempts
                                         THEN "connecting" ELSE "idle",
                               !.attempts = IF sock.attempts + 1 < pageReconnectionAttempts
                                            THEN sock.attempts + 1 ELSE 0,
                               !.isConnected = FALSE,
                               !.connectionError = TRUE,
                               !.errorMessage = "Connection error"])
    /\ ev' = EvSocket("connect_error", sock)
    /\ ReconnectFrame

\* socket.on("disconnect") when the server or the transport ended the
\* connection; after "io server disconnect" the client does not retry
PageOnDisconnect ==
    /\ sock.state = "connected"
    /\ \E reason \in {"io server disconnect", "transport close"} :
          sock' = StartReconnect(
                    [sock EXCEPT !.state = IF reason = "transport close"
                                           THEN "connecting" ELSE "idle",
                                 !.isConnected = FALSE,
                                 !.connectionError = TRUE,
                                 !.errorMessage = "Disconnected"])
    /\ ev' = EvSocket("disconnect", sock)
    /\ ReconnectFrame

\* A tick of a live interval timer
PageReconnectTick ==
    /\ \E id \in sock.intervals :
          LET counted == [sock EXCEPT !.reconnectAttempts = @ + 1]
          IN  sock' = IF counted.reconnectAttempts >= maxReconnectAttempts
                      THEN [ClearReconnect(counted) EXCEPT
                               !.errorMessage = "Could not connect to server"]
                      ELSE [counted EXCEPT       \* socket.connect()
                               !.state = IF @ = "idle" THEN "connecting" ELSE @]
    /\ ev' = EvSocket("tick", sock)
    /\ ReconnectFrame

\* The cleanup of the page: socket.disconnect() runs the disconnect handler
\* with "io client disconnect", then clearInterval(reconnectInterval)
PageUnmount ==
    /\ sock.state # "closed"
    /\ sock' = [sock EXCEPT !.state = "closed", !.isConnected = FALSE,
                            !.intervals = @ \ {sock.reconnectInterval}]
    /\ ev' = EvSocket("unmount", sock)
    /\ ReconnectFrame

ReconnectInit ==
    /\ containers = <<>>
    /\ stats = <<>>
    /\ systemInfo = SysInfo0
    /\ customNames = EmptyNames
    /\ networkHistory = [rx |-> <<>>, tx |-> <<>>]
    /\ isUserInteracting = FALSE
    /\ editingContainerId = Null
    /\ editingGroupName = Null
    /\ editingName = Empty
    /\ viewMode = "groups"
    /\ focus = "none"
    /\ dragged = NoDrag
    /\ timers = [stop |-> 0, fetch |-> 0]
    /\ calls = <<>>
    /\ pulls = 0
    /\ initPc = "done"
    /\ groupedContainers = <<>>
    /\ gestures = 0
    /\ pushLog = <<>>
    /\ ev = EvOther
    /\ sock = [state |-> "connecting", attempts |-> 0, isConnected |-> FALSE,
               connectionError |-> FALSE, errorMessage |-> "",
               reconnectAttempts |-> 0, reconnectInterval |-> 0, intervals |-> {}]

ReconnectNext ==
    \/ PageOnConnect
    \/ PageOnConnectError
    \/ PageOnDisconnect
    \/ PageReconnectTick
    \/ PageUnmount

ReconnectSpec ==
    /\ ReconnectInit
    /\ [][ReconnectNext]_vars

----------------------------------------------------------------------------
(* lib/utils/formatters.ts: getNetworkChartUnit, on the values of the rolling
   series.  Byte counts reach 1e12 and beyond: a count is the sequence of its
   base-1000 digits, least significant first, without leading zeros (0 is
   <<>>), so that 10^(3k) is k zeros followed by 1. *)

RECURSIVE Zeros(_)
Zeros(k) == IF k = 0 THEN <<>> ELSE <<0>> \o Zeros(k - 1)

RECURSIVE Nines(_)
Nines(k) == IF k = 0 THEN <<>> ELSE <<999>> \o Nines(k - 1)

\* 1000^k
Pow1000(k) == Zeros(k) \o <<1>>

\* a > b on digit sequences
NumGreater(a, b) ==
    \/ Len(a) > Len(b)
    \/ /\ Len(a) = Len(b)
       /\ \E k \in 1..Len(a) :
             /\ a[k] > b[k]
             /\ \A n \in (k + 1)..Len(a) : a[n] = b[n]

\* a >= b
NumAtLeast(a, b) == a = b \/ NumGreater(a, b)

\* Math.max(...values, 1)
RECURSIVE MathMax(_, _)
MathMax(values, floor) ==
    IF values = <<>> THEN floor
    ELSE LET rest == MathMax(Tail(values), floor)
         IN  IF NumGreater(Head(values), rest) THEN Head(values) ELSE rest

\* The thresholds compared with > in place of >=.
getNetworkChartUnit_strict(values) ==
    LET max == MathMax(values, Pow1000(0))
    IN  IF NumGreater(max, Pow1000(4)) THEN [divisor |-> Pow1000(4), unit |-> "TB"]
        ELSE IF NumGreater(max, Pow1000(3)) THEN [divisor |-> Pow1000(3), unit |-> "GB"]
        ELSE IF NumGreater(max, Pow1000(2)) THEN [divisor |-> Pow1000(2), unit |-> "MB"]
        ELSE IF NumGreater(max, Pow1000(1)) THEN [divisor |-> Pow1000(1), unit |-> "KB"]
        ELSE [divisor |-> Pow1000(0), unit |-> "B"]

getNetworkChartUnit(values) ==
    LET max == MathMax(values, Pow1000(0))
    IN  IF NumAtLeast(max, Pow1000(4)) THEN [divisor |-> Pow1000(4), unit |-> "TB"]
        ELSE IF NumAtLeast(max, Pow1000(3)) THEN [divisor |-> Pow1000(3), unit |-> "GB"]
        ELSE IF NumAtLeast(max, Pow1000(2)) THEN [divisor |-> Pow1000(2), unit |-> "MB"]
        ELSE IF NumAtLeast(max, Pow1000(1)) THEN [divisor |-> Pow1000(1), unit |-> "KB"]
        ELSE [divisor |-> Pow1000(0), unit |-> "B"]

\* chartData: the unit of [...rx, ...tx]
chartUnit(history) == getNetworkChartUnit(history.rx \o history.tx)

\* Byte counts at and around the thresholds, up to MaxDigits digits
ChartValues ==
    {Zeros(k) \o <<d>> : k \in 0..(MaxDigits - 1), d \in {1, 500, 999}}
        \cup {Nines(k) : k \in 0..MaxDigits}

\* An update_stats whose aggregates are a and b
ChartPush ==
    /\ Len(networkHistory.rx) < MaxChartPoints
    /\ \E a, b \in ChartValues :
          networkHistory' = [rx |-> Append(networkHistory.rx, a),
                             tx |-> Append(networkHistory.tx, b)]
    /\ ev' = [EvOther EXCEPT !.op = "push"]
    /\ UNCHANGED <<stats, systemInfo, containers, customNames, groupedContainers,
                   isUserInteracting, editVars, viewMode, focus, dragged, timers,
                   calls, netVars, pushLog, gestures>>

ChartNext == ChartPush

ChartSpec == Init /\ [][ChartNext]_vars

\* ---------------------------------------------------------------------------
\* Claims
\* ---------------------------------------------------------------------------

NoRepeat(list) ==
    \A m, n \in 1..Len(list) : list[m].id = list[n].id => m = n

\* C4: right after a successful pull is applied, the entity store holds exactly
\* the payload's entities: every payload id once, and no id the payload lacks.
C4_PullReplacesEntities ==
    (ev.op = "pull" /\ ev.ok) =>
        /\ IdsOf(containers) = IdsOf(ev.list)
        /\ Len(containers) = Len(ev.list)
        /\ NoRepeat(containers)

\* a two-entity pull applied after pushes and an earlier pull
C4_Witness ==
    /\ ev.op = "pull"
    /\ ev.ok
    /\ ev.list = <<E1x, E2>>
    /\ containers = ev.list
    /\ initPc = "done"
    /\ Len(networkHistory.rx) > 0

HistoryCap == HistoryKeep + 1

\* The push, counted from 1, that appended the series' k-th point.
PushOfPoint(series, k) == Len(pushLog) - Len(series) + k

\* C5: each traffic series holds at most 10 points; from the 11th push on every
\* point of a series comes from one of the last 10 pushes, so the first push's
\* point is gone.
C5_SeriesBounded ==
    /\ Len(networkHistory.rx) <= HistoryCap
    /\ Len(networkHistory.tx) <= HistoryCap
    /\ Len(networkHistory.rx) = Len(networkHistory.tx)
    /\ Len(networkHistory.rx) <= Len(pushLog)
    /\ \A k \in 1..Len(networkHistory.rx) :
          /\ networkHistory.rx[k] = pushLog[PushOfPoint(networkHistory.rx, k)].rx
          /\ networkHistory.tx[k] = pushLog[PushOfPoint(networkHistory.tx, k)].tx
    /\ Len(pushLog) > HistoryCap => PushOfPoint(networkHistory.rx, 1) > 1

\* the first push carried traffic, the ten after it none: its point has left
C5_Witness ==
    /\ Len(pushLog) = HistoryCap + 1
    /\ pushLog[1].rx = 2
    /\ Len(networkHistory.rx) = HistoryCap
    /\ \A k \in 1..Len(networkHistory.rx) : networkHistory.rx[k] = 0

Holders(list, grouped, mode, ecid, egn, drag, tm) ==
    {h \in {"containerForm", "groupForm", "drag", "dropHold"} :
        \/ h = "containerForm" /\ ContainerFormShown(list, ecid)
        \/ h = "groupForm" /\ GroupFormShown(mode, grouped, egn)
        \/ h = "drag" /\ drag # NoDrag
        \/ h = "dropHold" /\ tm.stop > 0}

HoldersNow ==
    Holders(containers, groupedContainers, viewMode, editingContainerId,
            editingGroupName, dragged, timers)

HoldersNext ==
    Holders(containers', groupedContainers', viewMode', editingContainerId',
            editingGroupName', dragged', timers')

\* C1: while the guard is active, a push whose custom_names differ from the
\* overlay leaves the overlay as it was.
C1_GuardedPushKeepsOverlay ==
    [][(isUserInteracting /\ ev'.op = "push"
            /\ ev'.data.custom_names # customNames)
        => customNames' = customNames]_vars

\* C6: when two interactions hold the guard and one of them ends, the guard
\* stays active as long as the other is still going on.
C6_GuardHeldUntilLastEnds ==
    [][(/\ isUserInteracting
        /\ Cardinality(HoldersNow) >= 2
        /\ HoldersNext # {}
        /\ HoldersNext # HoldersNow
        /\ HoldersNext \subseteq HoldersNow)
        => isUserInteracting']_vars

\* C8: with the guard not active and no remote call in flight, a push makes the
\* overlay equal to the push's custom_names.
C8_IdlePushAdoptsOverlay ==
    [][(~isUserInteracting /\ calls = <<>> /\ ev'.op = "push")
        => customNames' = ev'.data.custom_names]_vars

RenameKinds == {"updateContainerName", "updateGroupName"}

\* The editing fields a rename call was submitted from are clear.
EditingCleared(call, ecid, egn, text) ==
    /\ text = Empty
    /\ call.kind = "updateContainerName" => ecid = Null
    /\ call.kind = "updateGroupName" => egn = Null

\* C10: the step that submits a rename leaves the editing fields cleared, before
\* the remote call settles, and they are clear after it settles, whether it
\* succeeded or failed.
C10_EditingClearedOnSubmit ==
    [][/\ (Len(calls') = Len(calls) + 1 /\ calls'[Len(calls')].kind \in RenameKinds)
            => EditingCleared(calls'[Len(calls')], editingContainerId',
                              editingGroupName', editingName')
       /\ \A i \in 1..Len(calls) :
            (calls' = Without(calls, i) /\ calls[i].kind \in RenameKinds)
            => EditingCleared(calls[i], editingContainerId',
                              editingGroupName', editingName')]_vars

\* C2: when a rename's remote call comes back not OK and nothing else touched
\* the entry meanwhile, the overlay entry is what it was before the rename
\* started: the previous custom value, or absent.
C2_FailedRenameRestoresEntry ==
    (/\ ev.op = "settle"
     /\ ev.outcome = "failed"
     /\ ev.call.kind \in RenameKinds
     /\ ev.clean)
    => OverlayEntry(customNames, ev.call) = ev.call.prev

\* C3: of two renames of one container in flight together, the earlier failing
\* and the later succeeding, the later's value is the overlay entry once both
\* have settled, whichever settled first.
C3_LaterRenameWins ==
    (/\ ev.op = "settle"
     /\ ev.call.kind = "updateContainerName"
     /\ ev.expect # Null)
    => OverlayEntry(customNames, ev.call) = ev.expect

\* C7: every push replaces the metrics with the push's snapshot, whether or not
\* the guard is active.
C7_PushAlwaysReplacesMetrics ==
    [][ev'.op = "push"
        => (stats' = ev'.data.containers /\ systemInfo' = ev'.data.system_info)]_vars

\* The overlay entry of a component handler's call, as the handler leaves it
\* when it succeeds: editingName for a rename, absent for a reset.
ShowsNewValue(call, names, text) ==
    CASE call.kind = "updateContainerName" -> Get(names.containers, call.key) = text
      [] call.kind = "updateGroupName" -> Get(names.groups, call.key) = text
      [] call.kind = "resetContainerName" -> ~Has(names.containers, call.key)
      [] call.kind = "resetGroupName" -> ~Has(names.groups, call.key)
      [] call.kind = "resetContainerGroup" -> ~Has(names.container_groups, call.key)

\* C11: the step that sends a mutation's remote call leaves the overlay already
\* showing the new value, so the value is there while the call is in flight.
C11_OverlayAppliedBeforeResolve ==
    [][Len(calls') = Len(calls) + 1
        => ShowsNewValue(calls'[Len(calls')], customNames', editingName')]_vars

\* C12: a pull that fails leaves the entity store as it was before it.
C12_FailedPullSkipsCycle ==
    [][(ev'.op = "pull" /\ ~ev'.ok) => containers' = containers]_vars

\* C13: a push whose payload lacks containers, system_info or custom_names is
\* dropped: metrics, system info and overlay keep the values they had.
C13_MalformedPushDropped ==
    [][ev'.op = "malformed"
        => (stats' = stats /\ systemInfo' = systemInfo
            /\ customNames' = customNames)]_vars

\* C14: each of the six remote mutation calls hands its caller a boolean, true
\* exactly when the response is OK, false on a non-OK response and on a
\* network error, and never throws.
C14_MutationCallsReturnBoolean ==
    ev.op = "result" =>
        /\ ev.kind \in MutationKinds
        /\ ~ev.threw
        /\ ev.value \in BOOLEAN
        /\ ev.value = (ev.response = "ok")

\* a network error on resetContainerGroup came back as false
C14_Witness ==
    /\ ev.op = "result"
    /\ ev.kind = "resetContainerGroup"
    /\ ev.response = "rejected"
    /\ ev.value = FALSE
    /\ ~ev.threw

\* C15: once the view is unmounted nothing changes the entity store, the
\* overlay or the guard: no pull, no push, and pending results are no-ops.
C15_NothingChangesAfterUnmount ==
    [][~Mounted
        => /\ containers' = containers
           /\ customNames' = customNames
           /\ isUserInteracting' = isUserInteracting]_vars

\* The retry count the other generations of the page configure.
RetryLimit == 5

\* C16: the reconnect attempts of one outage are bounded: the channel starts
\* no attempt beyond the bound (it is then in the terminal failed state).
C16_ReconnectAttemptsBounded ==
    sock.attempts <= RetryLimit

\* C17: the guard never makes a pull of the entity list be skipped: every
\* call of fetchContainers requests the list, and every answer is merged.
C17_GuardNeverSkipsPull ==
    [][/\ ev'.op = "tick" => pulls' = pulls + 1
       /\ (ev'.op = "pull" /\ ev'.ok) => containers' = ev'.list]_vars

\* The part of a name before its first dash or underscore.
PrefixOf(name) ==
    CHOOSE p \in {SubSeq(name, 1, k) : k \in 0..Len(name)} :
        /\ \A n \in 1..Len(p) : p[n] \notin {"-", "_"}
        /\ Len(p) < Len(name) => name[Len(p) + 1] \in {"-", "_"}

NumericFields ==
    {"memory", "cpu", "network_rx", "network_tx", "io_read", "io_write", "uptime"}

\* The metric a numeric sort field stands for
MetricOf ==
    [memory |-> "memory_usage", cpu |-> "cpu_percent", network_rx |-> "network_rx",
     network_tx |-> "network_tx", io_read |-> "io_read", io_write |-> "io_write",
     uptime |-> "uptime"]

\* The value of container c in the sort field, 0 when it has none
Metric(c, field) ==
    IF c.id \in DOMAIN stats THEN stats[c.id][MetricOf[field]] ELSE 0

PlaceIn(list, c) == CHOOSE n \in 1..Len(list) : list[n] = c

Reversed(list) == [n \in 1..Len(list) |-> list[Len(list) + 1 - n]]

\* C19: on a numeric field sortedContainers is a permutation of the list,
\* non-increasing in the field for desc and non-decreasing for asc (a missing
\* value is 0), equal values keep their input order, and with distinct values
\* toggling the direction gives the reverse order.
C19_SortedByNumericField ==
    (ev.op = "sort" /\ ev.field \in NumericFields) =>
        LET r == ev.result
            f == ev.field
        IN  /\ Len(r) = Len(containers)
            /\ \A n \in 1..Len(containers) : \E m \in 1..Len(r) : r[m] = containers[n]
            /\ \A i, j \in 1..Len(r) :
                  i < j =>
                     /\ IF ev.direction = "desc"
                        THEN Metric(r[i], f) >= Metric(r[j], f)
                        ELSE Metric(r[i], f) <= Metric(r[j], f)
                     /\ Metric(r[i], f) = Metric(r[j], f)
                           => PlaceIn(containers, r[i]) < PlaceIn(containers, r[j])
            /\ (/\ ev.toggled
                /\ \A i, j \in 1..Len(r) : i # j => Metric(r[i], f) # Metric(r[j], f))
                  => r = Reversed(ev.before)

\* Usages 5, 1, 3 sorted by memory: 5, 3, 1 and after the toggle 1, 3, 5.
C19_Witness ==
    /\ ev.op = "sort"
    /\ ev.field = "memory"
    /\ ev.direction = "asc"
    /\ ev.toggled
    /\ Len(containers) = 3
    /\ \A n \in 1..3 : containers[n].id \in DOMAIN stats
    /\ [n \in 1..3 |-> stats[containers[n].id].memory_usage] = <<5, 1, 3>>
    /\ [n \in 1..3 |-> stats[ev.before[n].id].memory_usage] = <<5, 3, 1>>
    /\ [n \in 1..3 |-> stats[ev.result[n].id].memory_usage] = <<1, 3, 5>>

\* A letter's place in the alphabet, whatever its case
LetterRank(ch) ==
    CASE ch \in {"a", "A"} -> 1
      [] ch \in {"b", "B"} -> 2

\* a comes before b in the dictionary, letter case ignored
BeforeIgnoringCase(a, b) ==
    \E k \in 1..(Len(a) + 1) :
        /\ k <= Len(b)
        /\ \A n \in 1..(k - 1) : LetterRank(a[n]) = LetterRank(b[n])
        /\ k <= Len(a) => LetterRank(a[k]) < LetterRank(b[k])

\* C20: with sort field name the containers are ordered by their lowercased
\* names: names that differ only in case keep their input order, and "a"
\* comes before "B" in ascending direction.
C20_NameSortIgnoresCase ==
    (ev.op = "sort" /\ ev.field = "name") =>
        \A i, j \in 1..Len(ev.result) :
            i < j =>
               LET x == ev.result[i]
                   y == ev.result[j]
               IN  /\ IF ev.direction = "asc"
                      THEN ~BeforeIgnoringCase(y.name, x.name)
                      ELSE ~BeforeIgnoringCase(x.name, y.name)
                   /\ (~BeforeIgnoringCase(x.name, y.name) /\ ~BeforeIgnoringCase(y.name, x.name))
                         => PlaceIn(containers, x) < PlaceIn(containers, y)

\* The list B, A, a sorted by name ascending: A, a, B.
C20_Witness ==
    /\ ev.op = "sort"
    /\ ev.field = "name"
    /\ ev.direction = "asc"
    /\ ev.before # <<>>
    /\ [n \in 1..Len(containers) |-> containers[n].name] = <<<<"B">>, <<"A">>, <<"a">>>>
    /\ [n \in 1..Len(ev.result) |-> ev.result[n].name] = <<<<"A">>, <<"a">>, <<"B">>>>

\* The snapshot has every field that the backend's Stats type requires.
CompleteSnapshot ==
    \A i \in DOMAIN stats : (DOMAIN DefaultStat) \ {"cpu_count"} \subseteq DOMAIN stats[i]

SumIds(S, field) ==
    (IF IdC1 \in S THEN stats[IdC1][field] ELSE 0)
        + (IF IdC2 \in S THEN stats[IdC2][field] ELSE 0)

Greatest(S) == CHOOSE x \in S : \A y \in S : y <= x

CoresOf(i) == IF "cpu_count" \in DOMAIN stats[i] THEN stats[i].cpu_count ELSE 0

\* The totals of the containers S: sums, and the greatest core count.
SumsAndCores(t, S, overall) ==
    /\ (IF overall THEN t.cpuPercent ELSE t.cpu) = JsNum(SumIds(S, "cpu_percent"))
    /\ (IF overall THEN t.memoryUsage ELSE t.memory) = JsNum(SumIds(S, "memory_usage"))
    /\ t.networkRx = JsNum(SumIds(S, "network_rx"))
    /\ t.networkTx = JsNum(SumIds(S, "network_tx"))
    /\ t.ioRead = JsNum(SumIds(S, "io_read"))
    /\ t.ioWrite = JsNum(SumIds(S, "io_write"))
    /\ t.cpuCount = Greatest({0} \cup {CoresOf(i) : i \in S})

GreatestLimit(S) == Greatest({0} \cup {stats[i].memory_limit : i \in S})

\* The members of the n-th group that have metrics
MeasuredIn(n) ==
    {groupedContainers[n].members[k].id : k \in 1..Len(groupedContainers[n].members)}
        \cap DOMAIN stats

GroupTotalsAsClaimed ==
    \A n \in 1..Len(groupedContainers) :
        LET t == groupTotals(groupedContainers, stats)[groupedContainers[n].name]
        IN  /\ SumsAndCores(t, MeasuredIn(n), FALSE)
            /\ t.memoryLimit = GreatestLimit(MeasuredIn(n))

\* C21 (as the code has it): after a push the overall and the group totals are
\* sums for cpu, memory usage, network and io and the maximum for the core
\* count; a group's memory limit is the maximum over its members, the overall
\* memory limit is the host's MemTotal of system_info.
C21_TotalsSumsAndMaxima ==
    (ev.op = "push" /\ CompleteSnapshot) =>
        /\ SumsAndCores(totalStats(stats, systemInfo), DOMAIN stats, TRUE)
        /\ totalStats(stats, systemInfo).memoryLimit = systemInfo.MemTotal
        /\ GroupTotalsAsClaimed

\* C21 (as stated): the overall memory limit too is the maximum over the set.
C21_OverallLimitIsMaximum ==
    (ev.op = "push" /\ CompleteSnapshot) =>
        /\ SumsAndCores(totalStats(stats, systemInfo), DOMAIN stats, TRUE)
        /\ totalStats(stats, systemInfo).memoryLimit = GreatestLimit(DOMAIN stats)
        /\ GroupTotalsAsClaimed

\* Two measured containers in one group, on a host with more memory than
\* either limit.
C21_Witness ==
    /\ ev.op = "push"
    /\ CompleteSnapshot
    /\ DOMAIN stats = Ids
    /\ systemInfo.MemTotal = 16
    /\ \E n \in 1..Len(groupedContainers) :
          /\ MeasuredIn(n) = Ids
          /\ groupTotals(groupedContainers, stats)[groupedContainers[n].name].memoryLimit = 8
          /\ groupTotals(groupedContainers, stats)[groupedContainers[n].name].memory = JsNum(8)

\* The value of a field in a stats entry, an absent field counted as 0
ZeroIfAbsent(i, field) ==
    IF i \in DOMAIN stats /\ field \in DOMAIN stats[i] THEN stats[i][field] ELSE 0

SumZeroIfAbsent(S, field) ==
    (IF IdC1 \in S THEN ZeroIfAbsent(IdC1, field) ELSE 0)
        + (IF IdC2 \in S THEN ZeroIfAbsent(IdC2, field) ELSE 0)

\* The sums of the totals t are those of the containers S
SumsCountAbsentAsZero(t, S, overall) ==
    /\ (IF overall THEN t.cpuPercent ELSE t.cpu) = JsNum(SumZeroIfAbsent(S, "cpu_percent"))
    /\ (IF overall THEN t.memoryUsage ELSE t.memory) = JsNum(SumZeroIfAbsent(S, "memory_usage"))
    /\ t.networkRx = JsNum(SumZeroIfAbsent(S, "network_rx"))
    /\ t.networkTx = JsNum(SumZeroIfAbsent(S, "network_tx"))
    /\ t.ioRead = JsNum(SumZeroIfAbsent(S, "io_read"))
    /\ t.ioWrite = JsNum(SumZeroIfAbsent(S, "io_write"))

\* C22: whatever numeric field a snapshot lacks, every derived total (overall,
\* per group, and the aggregates appended to the rolling series) is a number
\* computed with the absent field counted as 0.
C22_AbsentFieldCountsAsZero ==
    ev.op = "push" =>
        /\ SumsCountAbsentAsZero(totalStats(stats, systemInfo), DOMAIN stats, TRUE)
        /\ \A n \in 1..Len(groupedContainers) :
              SumsCountAbsentAsZero(
                  groupTotals(groupedContainers, stats)[groupedContainers[n].name],
                  MeasuredIn(n), FALSE)
        /\ networkHistory.rx[Len(networkHistory.rx)] = SumZeroIfAbsent(DOMAIN stats, "network_rx")
        /\ networkHistory.tx[Len(networkHistory.tx)] = SumZeroIfAbsent(DOMAIN stats, "network_tx")

\* C23: while a rename's call is in flight, no push event changes the overlay
\* entry the rename wrote, whatever the user did since the submit.
C23_PushKeepsPendingRename ==
    [][ev'.op = "push"
        => \A i \in 1..Len(calls) :
              calls[i].kind \in {"updateContainerName", "updateGroupName"}
                 => OverlayEntry(customNames', calls[i]) = OverlayEntry(customNames, calls[i])]_vars

\* C24: when the set-group call of a drop fails and nothing else wrote the
\* entry meanwhile, the container's entry in container_groups is again what
\* it was before the drop (the previous override, or none).
C24_FailedDropRestoresGroup ==
    [][(/\ ev'.op = "settle"
        /\ ev'.call.kind = "updateContainerGroup"
        /\ ev'.outcome = "failed"
        /\ ev'.clean)
        => Get(customNames'.container_groups, ev'.call.key) = ev'.call.prev]_vars

\* C25: a mutation whose fetch rejects is rolled back like one that gets a
\* response that is not OK: when nothing else wrote the entry meanwhile, the
\* overlay entry is again what it was before the mutation.
C25_RejectedCallRolledBack ==
    [][(/\ ev'.op = "settle"
        /\ ev'.outcome = "threw"
        /\ ev'.clean)
        => OverlayEntry(customNames', ev'.call) = ev'.call.prev]_vars

\* C26: the guard flag is true exactly when an edit form is open for a
\* container or group that is displayed, or a drag is in progress.
C26_GuardIffEditingOrDragging ==
    isUserInteracting <=>
        \/ ContainerFormShown(containers, editingContainerId)
        \/ GroupFormShown(viewMode, groupedContainers, editingGroupName)
        \/ dragged # NoDrag

\* C27: the group override that a drop writes for a container is the one the
\* container's card reads and clears: both use the same key.
C27_DropAndResetShareKey ==
    [][(/\ dragged # NoDrag
        /\ ~dragged.dropped
        /\ dragged'.dropped
        /\ customNames'.container_groups # customNames.container_groups)
        => \A c \in Shown :
              c.id = dragged.id
                 => Get(customNames'.container_groups, KeyOf("groups", c))
                       = Get(customNames'.container_groups, dragged.id)]_vars

\* C28: at most one edit target is set: editingContainerId and
\* editingGroupName are never both non-null.
C28_OneEditTarget ==
    editingContainerId = Null \/ editingGroupName = Null

\* C29: after a push event the metrics store is that event's containers map:
\* nothing of an earlier snapshot survives.
C29_PushReplacesMetrics ==
    ev.op = "push" => stats = ev.data.containers

\* The push before this one had metrics for two containers, this one has none.
C29_Witness ==
    /\ ev.op = "push"
    /\ ev.data.containers = <<>>
    /\ stats = <<>>
    /\ Len(pushLog) >= 2
    /\ pushLog[Len(pushLog) - 1].rx = 2

\* The sum of a field over the entities of a snapshot
SnapshotSum(m, field) ==
    (IF IdC1 \in DOMAIN m THEN m[IdC1][field] ELSE 0)
        + (IF IdC2 \in DOMAIN m THEN m[IdC2][field] ELSE 0)

\* new is old without its oldest elements beyond 9, followed by total
ShiftedBy(old, new, total) ==
    /\ Len(new) = (IF Len(old) >= HistoryCap THEN HistoryCap ELSE Len(old) + 1)
    /\ new[Len(new)] = total
    /\ \A k \in 1..(Len(new) - 1) : new[k] = old[Len(old) - (Len(new) - 1) + k]

\* C30: on every push the rx (tx) series is its last up to 9 elements, in
\* order, followed by the event's sum of network_rx (network_tx); the two
\* series have the same length, which grows by one per push up to 10.
C30_SeriesShiftsAndAppends ==
    [][ev'.op = "push"
        => /\ ShiftedBy(networkHistory.rx, networkHistory'.rx,
                        SnapshotSum(ev'.data.containers, "network_rx"))
           /\ ShiftedBy(networkHistory.tx, networkHistory'.tx,
                        SnapshotSum(ev'.data.containers, "network_tx"))
           /\ Len(networkHistory'.rx) = Len(networkHistory'.tx)]_vars

\* A full series that has dropped its oldest element and holds both aggregates.
C30_Witness ==
    /\ ev.op = "push"
    /\ Len(pushLog) = HistoryCap + 1
    /\ pushLog[1].rx = 2
    /\ networkHistory.rx = <<0, 2, 0, 0, 0, 0, 0, 0, 0, 2>>
    /\ networkHistory.tx = <<0, 1, 0, 0, 0, 0, 0, 0, 0, 1>>

\* How often an entity occurs in the buckets of the grouped view
Occurrences(grouped, c) ==
    Cardinality({<<b, k>> \in (1..Len(grouped)) \X (1..3) :
                    k <= Len(grouped[b].members) /\ grouped[b].members[k] = c})

\* C31: the grouped view is a partition of the entity list: each entity is in
\* exactly one bucket, the one getContainerGroup names for it; no bucket is
\* empty; the buckets hold only entities of the list.
C31_GroupedViewIsPartition ==
    /\ \A n \in 1..Len(containers) :
          /\ Occurrences(groupedContainers, containers[n]) = 1
          /\ \E b \in 1..Len(groupedContainers) :
                /\ groupedContainers[b].name =
                      getContainerGroup(containers[n].id, containers,
                                        customNames.container_groups)
                /\ \E k \in 1..Len(groupedContainers[b].members) :
                      groupedContainers[b].members[k] = containers[n]
    /\ \A b \in 1..Len(groupedContainers) :
          /\ groupedContainers[b].members # <<>>
          /\ \A k \in 1..Len(groupedContainers[b].members) :
                \E n \in 1..Len(containers) :
                    containers[n] = groupedContainers[b].members[k]
    /\ \A a, b \in 1..Len(groupedContainers) :
          groupedContainers[a].name = groupedContainers[b].name => a = b

\* The position of an entry in a list of entries
PlaceOfGroup(entries, e) == CHOOSE n \in 1..Len(entries) : entries[n] = e

HasRunning(e) == \E k \in 1..Len(e.members) : e.members[k].status = "running"

\* C32: sortedGroups holds the groups of the grouped view, every group with a
\* running container before every group without one, and groups of the same
\* kind in the order they have in the grouped view.
C32_RunningGroupsFirst ==
    LET sg == sortedGroups(groupedContainers)
    IN  /\ Len(sg) = Len(groupedContainers)
        /\ \A n \in 1..Len(groupedContainers) :
              \E m \in 1..Len(sg) : sg[m] = groupedContainers[n]
        /\ \A i, j \in 1..Len(sg) :
              i < j => /\ HasRunning(sg[j]) => HasRunning(sg[i])
                       /\ (HasRunning(sg[i]) <=> HasRunning(sg[j]))
                             => PlaceOfGroup(groupedContainers, sg[i])
                                   < PlaceOfGroup(groupedContainers, sg[j])

\* Two idle groups ahead of a running one in the grouped view: the running one
\* moves to the front, the idle ones keep their order.
C32_Witness ==
    /\ Len(groupedContainers) = 3
    /\ groupedContainers[1].name = NameGroupD
    /\ groupedContainers[2].name = <<"x">>
    /\ groupedContainers[3].name = NameGroupW
    /\ sortedGroups(groupedContainers)
          = <<groupedContainers[3], groupedContainers[1], groupedContainers[2]>>

\* C33: with sort field status a running entity compares greater than any
\* other, and two entities that are both running or both not running compare
\* equal: they keep their input order in either direction; descending order
\* lists the running entities first.
C33_StatusSortRunningOnly ==
    (ev.op = "sort" /\ ev.field = "status") =>
        \A i, j \in 1..Len(ev.result) :
            i < j =>
               LET x == ev.result[i]
                   y == ev.result[j]
               IN  /\ ev.direction = "desc" => (y.status = "running" => x.status = "running")
                   /\ ev.direction = "asc" => (x.status = "running" => y.status = "running")
                   /\ ((x.status = "running") <=> (y.status = "running"))
                         => PlaceIn(containers, x) < PlaceIn(containers, y)

\* paused, exited, running sorted by status descending: running, paused, exited
C33_Witness ==
    /\ ev.op = "sort"
    /\ ev.field = "status"
    /\ ev.direction = "desc"
    /\ ev.before # <<>>
    /\ [n \in 1..Len(containers) |-> containers[n].status] = <<"paused", "exited", "running">>
    /\ [n \in 1..Len(ev.result) |-> ev.result[n].status] = <<"running", "paused", "exited">>

\* t is the part of name before its first separator (all of it without one)
IsFirstPart(t, name) ==
    /\ Len(t) <= Len(name)
    /\ \A n \in 1..Len(t) : t[n] = name[n] /\ t[n] \notin {"-", "_"}
    /\ Len(t) < Len(name) => name[Len(t) + 1] \in {"-", "_"}

\* C34 as stated: getDefaultGroup returns the part of the name before its first
\* '-' or '_' (the whole name without one), also for a name that begins with
\* a separator.
C34_DefaultGroupIsFirstPart ==
    \A n \in 1..Len(containers) :
        IsFirstPart(getDefaultGroup(containers[n]), containers[n].name)

\* C34: getDefaultGroup returns the part of the name before its first '-' or
\* '_', and the whole name when that part is empty or there is no separator.
C34_DefaultGroupOrWholeName ==
    \A n \in 1..Len(containers) :
        LET name == containers[n].name
            g == getDefaultGroup(containers[n])
        IN  /\ g # <<>>
            /\ IF name[1] \in {"-", "_"} THEN g = name ELSE IsFirstPart(g, name)
            /\ groupedContainers = <<[name |-> g, members |-> containers]>>

\* A name that begins with a separator is its own group; so is the pull's view.
C34_Witness ==
    /\ ev.op = "pull"
    /\ containers # <<>>
    /\ containers[1].name = <<"_", "a", "-">>
    /\ groupedContainers[1].name = <<"_", "a", "-">>

NameMutations == {"updateContainerName", "resetContainerName"}

\* Everything of the overlay but the containers entry of key is the same in
\* the next state.
OnlyEntryChanges(key) ==
    /\ \A k \in (DOMAIN customNames.containers) \cup (DOMAIN customNames'.containers) :
          k # key => Get(customNames'.containers, k) = Get(customNames.containers, k)
    /\ customNames'.groups = customNames.groups
    /\ customNames'.container_groups = customNames.container_groups

\* C36: a mutation of one container's name, when it is applied and when it
\* settles (confirmed, or rolled back on failure), changes only that
\* container's entry of the containers map; the other entries, the groups map
\* and the container_groups map stay as they were.
C36_NameMutationTouchesOneEntry ==
    [][/\ (Len(calls') = Len(calls) + 1 /\ calls'[Len(calls')].kind \in NameMutations)
           => OnlyEntryChanges(calls'[Len(calls')].key)
       /\ (ev'.op = "settle" /\ ev'.call.kind \in NameMutations)
           => OnlyEntryChanges(ev'.call.key)]_vars

\* A failed rename of c1 was rolled back: its entry is gone, the entry of c2
\* and the two other maps are still there.
C36_Witness ==
    /\ ev.op = "settle"
    /\ ev.outcome = "failed"
    /\ ev.call.kind = "updateContainerName"
    /\ ev.call.key = IdC1
    /\ ev.call.prev = TextA
    /\ customNames.containers = One(IdC2, TextB)
    /\ customNames.groups = One(NameGroupW, TextB)
    /\ customNames.container_groups = One(IdC2, NameGroupW)

\* C37: in the page with its own reconnect timer, reconnectAttempts never
\* exceeds 5, at most one reconnect timer is alive whatever the order of
\* connect_error and disconnect events, and a connect sets the counter to 0
\* and leaves no timer alive.
C37_OneTimerBoundedAttempts ==
    /\ [](sock.reconnectAttempts <= RetryLimit /\ Cardinality(sock.intervals) <= 1)
    /\ [][ev'.op = "connect" => sock'.reconnectAttempts = 0 /\ sock'.intervals = {}]_vars

\* A connect that arrived after four counted attempts, the timer alive
C37_Witness ==
    /\ ev.op = "connect"
    /\ ev.was = 4
    /\ ev.had
    /\ sock.reconnectAttempts = 0
    /\ sock.intervals = {}
    /\ sock.reconnectInterval = 0

\* The units and the number of base-1000 digits below their thresholds
UnitRank == [B |-> 0, KB |-> 1, MB |-> 2, GB |-> 3, TB |-> 4]

\* A count has more than k base-1000 digits exactly when it is >= 1000^k.
ReachesThreshold(v, k) == Len(v) > k

ChartPoints ==
    {networkHistory.rx[n] : n \in 1..Len(networkHistory.rx)}
        \cup {networkHistory.tx[n] : n \in 1..Len(networkHistory.tx)}

\* C38: getNetworkChartUnit returns the largest unit among B, KB, MB, GB, TB
\* (thresholds 1, 10^3, 10^6, 10^9, 10^12) whose threshold does not exceed
\* max(values, 1), also for no values; its divisor is that threshold, never 0.
C38_LargestUnitNotAboveMax ==
    LET r == chartUnit(networkHistory)
        k == UnitRank[r.unit]
    IN  /\ r.unit \in DOMAIN UnitRank
        /\ k > 0 => \E v \in ChartPoints : ReachesThreshold(v, k)
        /\ k < 4 => \A v \in ChartPoints : ~ReachesThreshold(v, k + 1)
        /\ r.divisor = [n \in 1..(k + 1) |-> IF n = k + 1 THEN 1 ELSE 0]
        /\ r.divisor # <<>>

\* 999,999 and exactly 10^6 bytes in the window: the unit is MB.
C38_Witness ==
    /\ ev.op = "push"
    /\ networkHistory.rx = <<<<999, 999>>>>
    /\ networkHistory.tx = <<<<0, 0, 1>>>>
    /\ chartUnit(networkHistory) = [divisor |-> <<0, 0, 1>>, unit |-> "MB"]

====
